---- MODULE Spec2Model ----
(***************************************************************************)
(* A model of the noVNC protocol engine (core/rfb.js): the connection      *)
(* state machine, the read driver (_messageLoop) with its handshake and    *)
(* normal-loop steps, and the transport and renderer it talks to.          *)
(*                                                                         *)
(* Scheduling.  JavaScript runs one task at a time.  The read driver is an *)
(* async function: it runs until it awaits something that is not ready (a  *)
(* byte-stream read with too few bytes, the credentials or approval        *)
(* promise, the renderer's flush) and continues in a microtask as soon as  *)
(* that is ready.  Event handlers (transport events, timers, API calls)    *)
(* are tasks and run only when no microtask is runnable: every environment *)
(* action below is guarded by ~Runnable.                                   *)
(*                                                                         *)
(* The receive queue is modelled by the number of buffered wire fields     *)
(* (rQ): a field is a run of consecutive reads of the driver between which *)
(* it has no side effect.  The value of a field is chosen when the driver  *)
(* reads it; only the driver ever looks at it.                             *)
(***************************************************************************)
EXTENDS Integers, Sequences, FiniteSets, TLC

\* ---------------------------------------------------------------- bounds
\* total number of wire fields the server delivers over the connection
MaxRecv == 7
\* number of wire fields the server is ahead of the driver
MaxQueue == 1
\* longest security-type list of the server
MaxTypes == 2
\* largest rectangle count announced by a FramebufferUpdate
MaxRects == 1
\* number of greetings of an UltraVNC repeater before the server's own
MaxRepeater == 1
\* number of times the application answers with incomplete credentials
MaxBadCredentials == 1
\* number of FramebufferUpdate messages the server sends, byte by byte
MaxUpdates == 2
\* number of rectangles the server sends in them
MaxWireRects == 2
\* number of ServerCutText messages the server sends, byte by byte
MaxCutTexts == 2
\* number of characters of the texts of all line ends the server provides
MaxText == 2
\* number of messages of a script of EndOfContinuousUpdates messages and
\* FramebufferUpdate messages
MaxContinuous == 3
\* length of the receive buffer of a new Websock
rQbufferSizeInit == 16
\* number of chunks a Websock by itself receives, the length of a chunk, and
\* the number of reads called on it
MaxChunks == 3
MaxChunk == 8
MaxReads == 3
\* number of pushes and flushes called on a Websock by itself
MaxPushes == 3
\* the compact lengths the server sends: every one up to MaxLength, and
\* the number of bytes of data it sends after a length
MaxLength == 300
MaxPayload == 2
\* number of key presses, mouse events and changes of viewOnly
MaxInputs == 3
\* number of messages one RA2Cipher makes or receives
MaxOps == 3

\* ------------------------------------------------------ program constants
securityTypeNone == 1
securityTypeVNCAuth == 2
securityTypeRA2ne == 6
securityTypeTight == 16
securityTypeVeNCrypt == 19
securityTypeXVP == 22
securityTypeARD == 30
securityTypeMSLogonII == 113
securityTypeUnixLogon == 129
securityTypePlain == 256

VARIABLES
    \* RFB object fields
    rfbConnectionState, rfbInitState, rfbVersion, rfbAuthScheme,
    rfbCleanDisconnect, rfbTightVNC, securityStatus, disconnTimer,
    credentialsResolve, approveServerResolve, rfbCredentials,
    supportsContinuousUpdates, enabledContinuousUpdates, fbWidth, fbHeight,
    \* Websock and transport
    readyState, handlers, rQ, received, syncClose,
    \* the timers of the event loop
    timers,
    \* renderer
    displayPending,
    \* read driver: position and locals
    pc, types, initSize, rects,
    \* observations
    trace, disconnectCalled,
    \* the receive queue byte by byte: the bytes the server has sent and the
    \* transport not delivered yet, the bytes delivered and not read yet,
    \* the number of bytes read
    wire, rQbuf, rQi,
    \* the locals of the handler or decoder the driver is in, the fields the
    \* decoders keep between rectangles, the viewOnly property
    loc, decoders, viewOnly,
    \* the clipboard text and the server's clipboard capabilities; whether
    \* the server has sent a fence
    clipboard, supportsFence,
    \* the Websock object by itself: its receive queue and its send queue
    sock,
    \* keyboard and mouse: the fields of the RFB object they use
    input,
    \* the two RA2Cipher objects of a session, by direction
    ciphers

vars == << rfbConnectionState, rfbInitState, rfbVersion, rfbAuthScheme,
           rfbCleanDisconnect, rfbTightVNC, securityStatus, disconnTimer,
           credentialsResolve, approveServerResolve, rfbCredentials,
           supportsContinuousUpdates, enabledContinuousUpdates, fbWidth,
           fbHeight, readyState, handlers, rQ, received, syncClose, timers,
           displayPending, pc, types, initSize, rects, trace,
           disconnectCalled, wire, rQbuf, rQi, loc, decoders, viewOnly,
           clipboard, supportsFence, sock, input, ciphers >>

\* The whole state as one record, so that a handler calling a handler is an
\* operator applied to the result of another.
World ==
    [ rfbConnectionState |-> rfbConnectionState, rfbInitState |-> rfbInitState,
      rfbVersion |-> rfbVersion, rfbAuthScheme |-> rfbAuthScheme,
      rfbCleanDisconnect |-> rfbCleanDisconnect, rfbTightVNC |-> rfbTightVNC,
      securityStatus |-> securityStatus, disconnTimer |-> disconnTimer,
      credentialsResolve |-> credentialsResolve,
      approveServerResolve |-> approveServerResolve,
      rfbCredentials |-> rfbCredentials,
      supportsContinuousUpdates |-> supportsContinuousUpdates,
      enabledContinuousUpdates |-> enabledContinuousUpdates,
      fbWidth |-> fbWidth, fbHeight |-> fbHeight,
      readyState |-> readyState, handlers |-> handlers, rQ |-> rQ,
      received |-> received, syncClose |-> syncClose, timers |-> timers,
      displayPending |-> displayPending,
      pc |-> pc, types |-> types, initSize |-> initSize, rects |-> rects,
      trace |-> trace, disconnectCalled |-> disconnectCalled,
      wire |-> wire, rQbuf |-> rQbuf, rQi |-> rQi, loc |-> loc,
      decoders |-> decoders, viewOnly |-> viewOnly,
      clipboard |-> clipboard, supportsFence |-> supportsFence,
      sock |-> sock, input |-> input, ciphers |-> ciphers ]

\* The step to the state next: its value is computed once and the variables
\* take its fields.
Commit(next) ==
    \E w \in {next} :
        /\ rfbConnectionState' = w.rfbConnectionState
        /\ rfbInitState' = w.rfbInitState
        /\ rfbVersion' = w.rfbVersion
        /\ rfbAuthScheme' = w.rfbAuthScheme
        /\ rfbCleanDisconnect' = w.rfbCleanDisconnect
        /\ rfbTightVNC' = w.rfbTightVNC
        /\ securityStatus' = w.securityStatus
        /\ disconnTimer' = w.disconnTimer
        /\ credentialsResolve' = w.credentialsResolve
        /\ approveServerResolve' = w.approveServerResolve
        /\ rfbCredentials' = w.rfbCredentials
        /\ supportsContinuousUpdates' = w.supportsContinuousUpdates
        /\ enabledContinuousUpdates' = w.enabledContinuousUpdates
        /\ fbWidth' = w.fbWidth
        /\ fbHeight' = w.fbHeight
        /\ readyState' = w.readyState
        /\ handlers' = w.handlers
        /\ rQ' = w.rQ
        /\ received' = w.received
        /\ syncClose' = w.syncClose
        /\ timers' = w.timers
        /\ displayPending' = w.displayPending
        /\ pc' = w.pc
        /\ types' = w.types
        /\ initSize' = w.initSize
        /\ rects' = w.rects
        /\ trace' = w.trace
        /\ disconnectCalled' = w.disconnectCalled
        /\ wire' = w.wire
        /\ rQbuf' = w.rQbuf
        /\ rQi' = w.rQi
        /\ loc' = w.loc
        /\ decoders' = w.decoders
        /\ viewOnly' = w.viewOnly
        /\ clipboard' = w.clipboard
        /\ supportsFence' = w.supportsFence
        /\ sock' = w.sock
        /\ input' = w.input
        /\ ciphers' = w.ciphers

\* ------------------------------------------------------------ vocabulary
\* Positions at which the driver awaits a byte-stream read.
ReadPCs ==
    { "ProtocolVersion", "Security", "SecurityReason",
      "AuthChallenge", "TightTunnels", "TightSubAuth",
      "VeNCryptVersion", "VeNCryptSubtypes", "RA2ServerKey",
      "RA2ServerRandom", "RA2ServerHash", "RA2Subtype", "SecurityResult",
      "ServerInit", "ServerInitTight", "NormalMsg", "Rect" }

\* The trace lists, in the order in which they happen, what the program can
\* be observed to do: the events it dispatches, the messages it hands to the
\* Websock, its state changes and failures as it logs them, and the fields it
\* reads that decide the handshake.
Entry(io, name, a, b) == [io |-> io, name |-> name, a |-> a, b |-> b]
Is(e, io, name) == e.io = io /\ e.name = name
log(w, e) == [w EXCEPT !.trace = Append(@, e)]
StateChange(state) == Entry("state", state, "", "")
Failure(details) == Entry("fail", details, "", "")
Recv(field, a) == Entry("recv", field, a, "")

\* Events handed to dispatchEvent; a and b are the fields of the detail.
Ev(type, a, b) == Entry("event", type, a, b)
EvConnect == Ev("connect", "", "")
EvDisconnect(clean) == Ev("disconnect", clean, "")
EvSecurityFailure(status, reason) == Ev("securityfailure", status, reason)

\* Client messages handed to the Websock; a and b are their parameters.
Msg(kind, a, b) == Entry("send", kind, a, b)
MsgFbUpdateRequest(incremental, w, h) ==
    Msg("FramebufferUpdateRequest", incremental, <<0, 0, w, h>>)

\* ------------------------------------------------- Websock and EventTarget
dispatchEvent(w, e) == log(w, e)

\* sQpush... followed by flush(): the message goes to the transport.
sockFlush(w, m) == log(w, m)

sockOff(w, h) == [w EXCEPT !.handlers = @ \ {h}]

\* A typed read that found too few bytes: the one pending demand.
DemandPending(w) == w.pc \in ReadPCs /\ w.rQ = 0

RECURSIVE updateConnectionState(_, _)

\* _fail that leaves _rfbCleanDisconnect as it is
fail_keepsClean(w, details) ==
    LET w1 == log(w, Failure(details))
    IN  IF w.rfbConnectionState = "disconnected" THEN w1
        ELSE updateConnectionState(
                 updateConnectionState(w1, "disconnecting"), "disconnected")

fail(w, details) ==
    LET w1 == log(w, Failure(details))
    IN  IF w.rfbConnectionState = "disconnected" THEN w1
        ELSE updateConnectionState(
                 updateConnectionState(
                     [w1 EXCEPT !.rfbCleanDisconnect = FALSE],
                     "disconnecting"),
                 "disconnected")

\* _socketClose that forgets the clean disconnect
socketClose_unclean(w) ==
    sockOff(IF w.rfbConnectionState = "connected"
            THEN updateConnectionState(
                     updateConnectionState(
                         [w EXCEPT !.rfbCleanDisconnect = FALSE],
                         "disconnecting"),
                     "disconnected")
            ELSE fail(w, "Connection closed"), "close")

\* _socketClose that takes every close for a failure
socketClose_alwaysFails(w) == sockOff(fail(w, "Connection closed"), "close")

socketClose(w) ==
    LET r == CASE w.rfbConnectionState = "connecting" ->
                      fail(w, "Connection closed")
               [] w.rfbConnectionState = "connected" ->
                      updateConnectionState(
                          updateConnectionState(w, "disconnecting"),
                          "disconnected")
               [] w.rfbConnectionState = "disconnecting" ->
                      updateConnectionState(w, "disconnected")
               [] OTHER -> fail(w, "Unexpected server disconnect")
    IN  sockOff(r, "close")

\* The transport's close event as Websock handles it: the pending demand is
\* rejected and the 'close' handler, if still registered, is called.
websockOnClose(w) ==
    LET w1 == [w EXCEPT !.readyState = "closed",
                        !.pc = IF DemandPending(w) THEN "rejected" ELSE @]
    IN  IF "close" \in w1.handlers THEN socketClose(w1) ELSE w1

\* Websock.close(): closes an open or connecting transport and stops
\* listening for messages.  A transport may deliver its close event from
\* inside close() (syncClose) or later.
websockClose(w) ==
    IF w.readyState \in {"connecting", "open"}
    THEN IF w.syncClose THEN websockOnClose(w)
         ELSE [w EXCEPT !.readyState = "closing"]
    ELSE w

\* _disconnect: the listeners of the canvas removed, the transport closed,
\* a waiting mouse move cancelled
disconnectTeardown(w) ==
    [websockClose(w) EXCEPT
        !.input.listening = FALSE,
        !.input.mouseMoveTimer = IF @ = "pending" THEN "cleared" ELSE @]

\* The transition checks of _updateConnectionState: TRUE when the state
\* change from oldstate to state is carried out.
TransitionAllowed_noChecks(oldstate, state) == state # oldstate

TransitionAllowed_always(oldstate, state) == TRUE

\* the state it is in already is accepted again
TransitionAllowed_again(oldstate, state) ==
    \/ state = oldstate
    \/ /\ oldstate # "disconnected"
       /\ CASE state = "connected" -> oldstate = "connecting"
            [] state = "disconnected" -> oldstate = "disconnecting"
            [] state = "connecting" -> oldstate = ""
            [] state = "disconnecting" ->
                   oldstate \in {"connected", "connecting"}
            [] OTHER -> FALSE

TransitionAllowed(oldstate, state) ==
    /\ state # oldstate
    /\ oldstate # "disconnected"
    /\ CASE state = "connected" -> oldstate = "connecting"
         [] state = "disconnected" -> oldstate = "disconnecting"
         [] state = "connecting" -> oldstate = ""
         [] state = "disconnecting" ->
                oldstate \in {"connected", "connecting"}
         [] OTHER -> FALSE

\* clearTimeout(id): a timer still pending is cancelled
clearTimeout(w, id) ==
    IF id \in 1..Len(w.timers) /\ w.timers[id] = "pending"
    THEN [w EXCEPT !.timers[id] = "cleared"]
    ELSE w

\* a setTimeout that creates no timer
setDisconnTimer_never(w) == w

\* _disconnTimer = setTimeout(...): a new timer, its id kept in the field
setDisconnTimer(w) ==
    [w EXCEPT !.timers = Append(@, "pending"),
              !.disconnTimer = Len(w.timers) + 1]

updateConnectionState(w, state) ==
    IF ~TransitionAllowed(w.rfbConnectionState, state) THEN w
    ELSE LET w1 == log([w EXCEPT !.rfbConnectionState = state],
                       StateChange(state))
             w2 == IF w1.disconnTimer # 0 /\ state # "disconnecting"
                   THEN sockOff([clearTimeout(w1, w1.disconnTimer)
                                    EXCEPT !.disconnTimer = 0], "close")
                   ELSE w1
         IN  CASE state = "connected" -> dispatchEvent(w2, EvConnect)
               [] state = "disconnecting" ->
                      setDisconnTimer(disconnectTeardown(w2))
               [] state = "disconnected" ->
                      dispatchEvent(w2, EvDisconnect(w2.rfbCleanDisconnect))
               [] OTHER -> w2

socketOpen(w) ==
    IF w.rfbConnectionState = "connecting" /\ w.rfbInitState = ""
    THEN [w EXCEPT !.rfbInitState = "ProtocolVersion", !.pc = "top"]
    ELSE fail(w, "Unexpected server connection")

\* The driver can continue: what it awaits is ready.
Runnable ==
    \/ pc \in {"top", "rejected", "SecurityChoose"}
    \/ pc \in ReadPCs /\ rQ > 0
    \/ pc \in {"Credentials", "RA2Credentials"} /\ ~credentialsResolve
    \/ pc = "ApproveServer" /\ ~approveServerResolve
    \/ pc = "DisplayFlush" /\ ~displayPending

\* --------------------------------------------------------- the environment
\* the locals of a handler that has not read anything yet
NoLocals ==
    [ x |-> 0, y |-> 0, width |-> 0, height |-> 0, encoding |-> 0,
      ctl |-> 0, length |-> 0, flags |-> 0, data |-> << >>,
      currTile |-> 0, subencoding |-> 0, lastSubEncoding |-> 0,
      background |-> << >>, foreground |-> << >>, subrects |-> 0,
      tile |-> << >>, filter |-> 0, streamId |-> 0, numColors |-> 0,
      palette |-> << >>, lenBytes |-> 0, kind |-> "", size |-> 0,
      segments |-> << >>, type |-> 0, extra |-> 0 ]

\* a Websock after _allocateBuffers: a receive buffer of rQbufferSize zero
\* bytes, of which the bytes from rQi up to rQlen are received and not read;
\* the reads that wait for bytes; a send buffer that holds the bytes sQ
NewSock ==
    [ rQ |-> [i \in 1..rQbufferSizeInit |-> 0],
      rQbufferSize |-> rQbufferSizeInit,
      rQi |-> 0, rQlen |-> 0, waiters |-> << >>, sQ |-> << >> ]

\* new RA2Cipher(), and the two of a session: no key, a counter of 16 zero
\* bytes; start and ops remember the counter the cipher began with and the
\* number of messages it has made or received since, iv and len the nonce
\* and the length of the result of the last one
Directions == {"client", "server"}
ZeroCounter == [i \in 1..16 |-> 0]
NewRA2Cipher(start) ==
    [ cipher |-> "null", counter |-> start, start |-> start, ops |-> 0,
      iv |-> << >>, len |-> 0 ]
NewCiphers == [d \in Directions |-> NewRA2Cipher(ZeroCounter)]

\* keyboard and mouse as the constructor and _connect leave them: the
\* server has not announced QEMUExtendedKeyEvent, the canvas has its mouse
\* listeners, no mouse move waits, no button is down, no move was sent
NewInput ==
    [ qemuExtKeyEventSupported |-> FALSE, listening |-> TRUE,
      mouseMoveTimer |-> "null", mousePos |-> << 0, 0 >>,
      mouseButtonMask |-> 0, mouseLastMoveTime |-> 0, events |-> 0 ]

\* the state of the clipboard as the constructor makes it: no text, no
\* capabilities of the server
NoClipboard == [ hasText |-> FALSE, text |-> << >>, actions |-> {},
                 formats |-> {} ]

\* the decoders as the constructor makes them: what the last decodeRect
\* has resolved to, which is nothing yet; RREDecoder._subrects, the
\* caches of JPEGDecoder, the four inflate streams of TightDecoder and of
\* TightPNGDecoder
NewDecoders ==
    [ done |-> "", subrects |-> 0, cachedQuantTables |-> << >>,
      cachedHuffmanTables |-> << >>,
      zlibsTight |-> << << >>, << >>, << >>, << >> >>,
      zlibsTightPNG |-> << << >>, << >>, << >>, << >> >> ]

Init ==
    /\ rfbConnectionState = "connecting"
    /\ rfbInitState = ""
    /\ rfbVersion = 0
    /\ rfbAuthScheme = -1
    /\ rfbCleanDisconnect = TRUE
    /\ rfbTightVNC = FALSE
    /\ securityStatus = 0
    /\ disconnTimer = 0
    /\ credentialsResolve = FALSE
    /\ approveServerResolve = FALSE
    /\ rfbCredentials \in BOOLEAN
    /\ supportsContinuousUpdates = FALSE
    /\ enabledContinuousUpdates = FALSE
    /\ fbWidth = 0
    /\ fbHeight = 0
    /\ readyState = "connecting"
    /\ handlers = {"open", "close", "error"}
    /\ rQ = 0
    /\ received = 0
    /\ syncClose \in BOOLEAN
    /\ timers = << >>
    /\ displayPending = FALSE
    /\ pc = "none"
    /\ types = << >>
    /\ initSize = << >>
    /\ rects = 0
    /\ trace = << StateChange("connecting") >>
    /\ disconnectCalled = {}
    /\ wire = << >>
    /\ rQbuf = << >>
    /\ rQi = 0
    /\ loc = NoLocals
    /\ decoders = NewDecoders
    /\ viewOnly = FALSE
    /\ clipboard = NoClipboard
    /\ supportsFence = FALSE
    /\ sock = NewSock
    /\ input = NewInput
    /\ ciphers = NewCiphers

\* transport: the connection opens
TransportOpen ==
    /\ ~Runnable
    /\ readyState = "connecting"
    /\ LET w == [World EXCEPT !.readyState = "open"]
       IN  Commit(IF "open" \in w.handlers THEN socketOpen(w) ELSE w)

\* transport: a chunk arrives that completes one more wire field
TransportMessage ==
    /\ ~Runnable
    /\ readyState = "open"
    /\ received < MaxRecv
    /\ rQ < MaxQueue
    /\ Commit([World EXCEPT !.rQ = @ + 1, !.received = @ + 1])

\* transport: the close event (the peer closed, the network failed, or the
\* close the client asked for is complete)
TransportClose ==
    /\ ~Runnable
    /\ readyState \in {"connecting", "open", "closing"}
    /\ Commit(websockOnClose(World))

\* API: disconnect()
Disconnect ==
    /\ ~Runnable
    /\ LET w == updateConnectionState(World, "disconnecting")
       IN  Commit([w EXCEPT !.handlers = @ \ {"error", "message", "open"},
                            !.disconnectCalled = @ \cup {rfbConnectionState}])

\* the disconnect timer expires
DisconnectTimeout ==
    /\ ~Runnable
    /\ \E id \in 1..Len(timers) :
           /\ timers[id] = "pending"
           /\ Commit(updateConnectionState([World EXCEPT !.timers[id] = "fired"],
                                           "disconnected"))

\* ------------------------------------------------------- the read driver
\* the catch clause of _messageLoop, e the exception
catch(w, e) == fail([w EXCEPT !.pc = "caught"], e)

\* a handler or decoder throws
throw(w) == catch(w, "ProtocolError")

\* a handler of _initMsg or _normalMsg returns to the loops of _messageLoop
return(w) == [w EXCEPT !.pc = "top"]

\* a typed read takes the next field off the receive queue
Consume(w) == [w EXCEPT !.rQ = @ - 1]

versionOf(sversion) ==
    CASE sversion \in {"003.003", "003.006"} -> 33
      [] sversion = "003.007" -> 37
      [] sversion \in {"003.008", "003.889", "004.000", "004.001",
                       "005.000"} -> 38
      [] OTHER -> 0

negotiateProtocolVersion(w, sversion) ==
    IF sversion = "000.000"
    THEN return(sockFlush(w, Msg("RepeaterID", "", "")))
    ELSE IF versionOf(sversion) = 0 THEN throw(w)
    ELSE LET v == versionOf(sversion)
         IN  return([sockFlush(w, Msg("ProtocolVersion", v, ""))
                        EXCEPT !.rfbVersion = v, !.rfbInitState = "Security"])

isSupportedSecurityType(type) ==
    type \in { securityTypeNone, securityTypeVNCAuth, securityTypeRA2ne,
               securityTypeTight, securityTypeVeNCrypt, securityTypeXVP,
               securityTypeARD, securityTypeMSLogonII, securityTypePlain }

\* a security type the client does not implement
UnsupportedType == CHOOSE t \in 3..255 : ~isSupportedSecurityType(t)

\* the server's inputs
ServerVersions == {"000.000", "003.003", "003.007", "003.008", "009.999"}
SecTypeDomain ==
    { securityTypeNone, securityTypeVNCAuth, UnsupportedType,
      securityTypeRA2ne, securityTypeTight, securityTypeVeNCrypt,
      securityTypeXVP }
TypeLists == UNION { [1..n -> SecTypeDomain] : n \in 0..MaxTypes }
AuthSchemes33 == {0, securityTypeNone, securityTypeVNCAuth, UnsupportedType}
VeNCryptSubtypes ==
    UNION { [1..n -> {securityTypeVeNCrypt, securityTypePlain,
                      UnsupportedType}] : n \in 0..MaxTypes }
TightAuthNames == {"STDVNOAUTH__", "STDVVNCAUTH_", "TGHTULGNAUTH"}
StatusDomain == {0, 1, 2}
ReasonDomain == {"", "denied"}
FbSizes == {<<1, 2>>, <<2, 1>>}

\* _negotiateSecurity with the break of its loop missing: the last supported
\* entry wins
RECURSIVE firstSupported_last(_, _)
firstSupported_last(list, i) ==
    IF i > Len(list) THEN -1
    ELSE IF firstSupported_last(list, i + 1) # -1
         THEN firstSupported_last(list, i + 1)
    ELSE IF isSupportedSecurityType(list[i]) THEN list[i]
    ELSE -1

\* the loop of _negotiateSecurity over the server's list, from index i
RECURSIVE firstSupported(_, _)
firstSupported(list, i) ==
    IF i > Len(list) THEN -1
    ELSE IF isSupportedSecurityType(list[i]) THEN list[i]
    ELSE firstSupported(list, i + 1)

\* the loop of _negotiateVeNCryptAuth over the subtypes, from index i
RECURSIVE firstSubtype(_, _)
firstSubtype(list, i) ==
    IF i > Len(list) THEN -1
    ELSE IF list[i] # securityTypeVeNCrypt /\ isSupportedSecurityType(list[i])
         THEN list[i]
    ELSE firstSubtype(list, i + 1)

securityReasonState(w, status) ==
    return([w EXCEPT !.rfbInitState = "SecurityReason",
                     !.securityStatus = status])

\* _negotiateSecurity for version >= 3.7, up to the read of the list
negotiateSecurityRead(w, list) ==
    IF Len(list) = 0 THEN securityReasonState(w, 1)
    ELSE [w EXCEPT !.types = list, !.pc = "SecurityChoose"]

\* _negotiateSecurity for version >= 3.7, from the list on
negotiateSecurityChoose(w) ==
    LET scheme == firstSupported(w.types, 1)
        w1 == [w EXCEPT !.rfbAuthScheme = scheme, !.types = << >>]
    IN  IF scheme = -1 THEN throw(w1)
        ELSE return([sockFlush(w1, Msg("SecurityType", scheme, ""))
                        EXCEPT !.rfbInitState = "Authentication"])

\* _negotiateSecurity for version 3.3: the server decides
negotiateSecurity33(w, scheme) ==
    IF scheme = 0
    THEN securityReasonState([w EXCEPT !.rfbAuthScheme = scheme], 1)
    ELSE return([w EXCEPT !.rfbAuthScheme = scheme,
                          !.rfbInitState = "Authentication"])

\* _handleSecurityReason that leaves the reason out of the event
handleSecurityReason_noReason(w, reason) ==
    throw(dispatchEvent(log(w, Recv("SecurityReason", reason)),
                        EvSecurityFailure(w.securityStatus, "")))

handleSecurityReason(w, reason) ==
    throw(dispatchEvent(log(w, Recv("SecurityReason", reason)),
                        EvSecurityFailure(w.securityStatus, reason)))

\* _handleSecurityResult that takes every status for OK
handleSecurityResult_toInit(w, status) ==
    return([log(w, Recv("SecurityResult", status))
               EXCEPT !.rfbInitState = "ClientInitialisation"])

handleSecurityResult(w, status) ==
    LET w1 == log(w, Recv("SecurityResult", status))
    IN  IF status = 0
        THEN return([w1 EXCEPT !.rfbInitState = "ClientInitialisation"])
        ELSE IF w.rfbVersion >= 38 THEN securityReasonState(w1, status)
        ELSE throw(dispatchEvent(w1, EvSecurityFailure(status, "")))

securityResultState(w) == return([w EXCEPT !.rfbInitState = "SecurityResult"])

\* what follows _getCredentials in the scheme's handler
afterCredentials(w) ==
    CASE w.rfbAuthScheme \in {securityTypeVNCAuth, securityTypeARD,
                              securityTypeMSLogonII} ->
             [w EXCEPT !.pc = "AuthChallenge"]
      [] w.rfbAuthScheme = securityTypeXVP ->
             [sockFlush(w, Msg("XvpAuth", "", ""))
                 EXCEPT !.rfbAuthScheme = securityTypeVNCAuth,
                        !.pc = "AuthChallenge"]
      [] OTHER ->
             securityResultState(sockFlush(w, Msg("Credentials",
                                                  w.rfbAuthScheme, "")))

getCredentials(w) ==
    IF w.rfbCredentials THEN w
    ELSE dispatchEvent([w EXCEPT !.credentialsResolve = TRUE],
                       Ev("credentialsrequired", "", ""))

negotiateAuthentication(w) ==
    CASE w.rfbAuthScheme = securityTypeNone -> securityResultState(w)
      [] w.rfbAuthScheme \in { securityTypeXVP, securityTypeARD,
                               securityTypeVNCAuth, securityTypePlain,
                               securityTypeUnixLogon, securityTypeMSLogonII } ->
             [w EXCEPT !.pc = "Credentials"]
      [] w.rfbAuthScheme = securityTypeTight ->
             [w EXCEPT !.pc = IF w.rfbTightVNC THEN "TightSubAuth"
                              ELSE "TightTunnels"]
      [] w.rfbAuthScheme = securityTypeVeNCrypt ->
             [w EXCEPT !.pc = "VeNCryptVersion"]
      [] w.rfbAuthScheme = securityTypeRA2ne ->
             [w EXCEPT !.pc = "RA2ServerKey"]
      [] OTHER -> throw(w)

initMsg(w) ==
    CASE w.rfbInitState = "ProtocolVersion" -> [w EXCEPT !.pc = "ProtocolVersion"]
      [] w.rfbInitState = "Security" -> [w EXCEPT !.pc = "Security"]
      [] w.rfbInitState = "Authentication" -> negotiateAuthentication(w)
      [] w.rfbInitState = "SecurityResult" ->
             IF w.rfbVersion < 37
             THEN return([w EXCEPT !.rfbInitState = "ClientInitialisation"])
             ELSE [w EXCEPT !.pc = "SecurityResult"]
      [] w.rfbInitState = "SecurityReason" -> [w EXCEPT !.pc = "SecurityReason"]
      [] w.rfbInitState = "ClientInitialisation" ->
             return([sockFlush(w, Msg("ClientInit", "", ""))
                        EXCEPT !.rfbInitState = "ServerInitialisation"])
      [] w.rfbInitState = "ServerInitialisation" -> [w EXCEPT !.pc = "ServerInit"]
      [] OTHER -> throw(w)

messageLoop(w) ==
    IF w.rfbConnectionState = "connecting" THEN initMsg(w)
    ELSE IF w.rfbConnectionState = "connected" THEN [w EXCEPT !.pc = "NormalMsg"]
    ELSE [w EXCEPT !.pc = "exited"]

\* driver: the loop conditions of _messageLoop and the start of the next handler
MessageLoop ==
    /\ pc = "top"
    /\ Commit(messageLoop(World))

\* driver: the catch clause after a rejected read
MessageLoopCatch ==
    /\ pc = "rejected"
    /\ Commit(catch(World, "ConnectionClosed"))

RepeaterGreetings(t) ==
    Cardinality({i \in 1..Len(t) : Is(t[i], "send", "RepeaterID")})

NegotiateProtocolVersion ==
    /\ pc = "ProtocolVersion" /\ rQ > 0
    /\ \E sversion \in ServerVersions :
           /\ sversion = "000.000" => RepeaterGreetings(trace) < MaxRepeater
           /\ Commit(negotiateProtocolVersion(Consume(World), sversion))

NegotiateSecurity ==
    /\ pc = "Security" /\ rQ > 0
    /\ IF rfbVersion >= 37
       THEN \E list \in TypeLists :
                Commit(negotiateSecurityRead(Consume(World), list))
       ELSE \E scheme \in AuthSchemes33 :
                Commit(negotiateSecurity33(Consume(World), scheme))

NegotiateSecurityChoose ==
    /\ pc = "SecurityChoose"
    /\ Commit(negotiateSecurityChoose(World))

HandleSecurityReason ==
    /\ pc = "SecurityReason" /\ rQ > 0
    /\ \E reason \in ReasonDomain :
           Commit(handleSecurityReason(Consume(World), reason))

HandleSecurityResult ==
    /\ pc = "SecurityResult" /\ rQ > 0
    /\ \E status \in StatusDomain :
           Commit(handleSecurityResult(Consume(World), status))

\* driver: _getCredentials at the start of a scheme's handler
GetCredentials ==
    /\ pc = "Credentials" /\ ~credentialsResolve
    /\ Commit(IF rfbCredentials THEN afterCredentials(World)
              ELSE getCredentials(World))

\* driver: the challenge or key material of VNCAuth, ARD and MSLogonII
NegotiateChallengeAuth ==
    /\ pc = "AuthChallenge" /\ rQ > 0
    /\ Commit(securityResultState(
           sockFlush(Consume(World), Msg("AuthResponse", rfbAuthScheme, ""))))

CredentialRequests(t) ==
    Cardinality({i \in 1..Len(t) : Is(t[i], "event", "credentialsrequired")})

\* API: sendCredentials(creds)
SendCredentials ==
    /\ ~Runnable
    /\ credentialsResolve
    /\ \E complete \in BOOLEAN :
           /\ complete \/ CredentialRequests(trace) <= MaxBadCredentials
           /\ Commit([World EXCEPT !.rfbCredentials = complete,
                                   !.credentialsResolve = FALSE])

\* _negotiateTightAuth, first pass: the tunnel types.  notunnel: the server's
\* list holds NOTUNNEL with the client's vendor and signature, or the
\* Siemens tunnel type that stands for it.
negotiateTightTunnels(w, numTunnels, notunnel) ==
    LET w1 == [w EXCEPT !.rfbTightVNC = TRUE]
    IN  IF numTunnels > 0
        THEN IF notunnel THEN return(sockFlush(w1, Msg("TightTunnel", 0, "")))
             ELSE throw(w1)
        ELSE [w1 EXCEPT !.pc = "TightSubAuth"]

\* _negotiateTightAuth, second pass: the sub-auth capabilities of the server
negotiateTightSubAuth(w, caps) ==
    CASE caps = {} -> securityResultState(w)
      [] "STDVNOAUTH__" \in caps ->
             securityResultState(
                 sockFlush(w, Msg("TightAuth", securityTypeNone, "")))
      [] "STDVNOAUTH__" \notin caps /\ "STDVVNCAUTH_" \in caps ->
             return([sockFlush(w, Msg("TightAuth", securityTypeVNCAuth, ""))
                        EXCEPT !.rfbAuthScheme = securityTypeVNCAuth])
      [] caps \cap {"STDVNOAUTH__", "STDVVNCAUTH_"} = {}
             /\ "TGHTULGNAUTH" \in caps ->
             return([sockFlush(w, Msg("TightAuth", securityTypeUnixLogon, ""))
                        EXCEPT !.rfbAuthScheme = securityTypeUnixLogon])
      [] OTHER -> throw(w)

\* _negotiateVeNCryptAuth, state 0: the version
negotiateVeNCryptVersion(w, supported) ==
    IF supported
    THEN [sockFlush(w, Msg("VeNCryptVersion", 0, 2))
             EXCEPT !.pc = "VeNCryptSubtypes"]
    ELSE throw(w)

\* _negotiateVeNCryptAuth, states 1 to 3: the ack and the subtypes
negotiateVeNCryptSubtypes(w, ack, list) ==
    IF ack # 0 \/ Len(list) < 1 \/ firstSubtype(list, 1) = -1
    THEN throw(w)
    ELSE LET scheme == firstSubtype(list, 1)
         IN  return([sockFlush(w, Msg("VeNCryptSubtype", scheme, ""))
                        EXCEPT !.rfbAuthScheme = scheme])

\* a handshake that sends its public key along with the question
negotiateRA2ServerKey_sends(w, valid) ==
    IF valid
    THEN sockFlush(dispatchEvent([w EXCEPT !.approveServerResolve = TRUE,
                                           !.pc = "ApproveServer"],
                                 Ev("serververification", "RSA", "")),
                   Msg("RA2ClientPublicKey", "", ""))
    ELSE throw(w)

\* _negotiateRA2neAuth, step 1, and _approveServer
negotiateRA2ServerKey(w, valid) ==
    IF valid
    THEN dispatchEvent([w EXCEPT !.approveServerResolve = TRUE,
                                 !.pc = "ApproveServer"],
                       Ev("serververification", "RSA", ""))
    ELSE throw(w)

\* _negotiateRA2neAuth, steps 2 and 3
negotiateRA2ClientKey(w) ==
    [sockFlush(sockFlush(w, Msg("RA2ClientPublicKey", "", "")),
               Msg("RA2ClientRandom", "", ""))
        EXCEPT !.pc = "RA2ServerRandom"]

\* _negotiateRA2neAuth, steps 4 to 6 up to the client hash
negotiateRA2ServerRandom(w, valid) ==
    IF valid
    THEN [sockFlush(w, Msg("RA2ClientHash", "", ""))
             EXCEPT !.pc = "RA2ServerHash"]
    ELSE throw(w)

\* _negotiateRA2neAuth, step 6: the server hash
negotiateRA2ServerHash(w, valid) ==
    IF valid THEN [w EXCEPT !.pc = "RA2Subtype"] ELSE throw(w)

\* _negotiateRA2neAuth, step 7: the subtype
negotiateRA2Subtype(w, valid) ==
    IF valid THEN [w EXCEPT !.pc = "RA2Credentials"] ELSE throw(w)

negotiateRA2Credentials(w) ==
    securityResultState(sockFlush(w, Msg("RA2Credentials", "", "")))

NegotiateTightTunnels ==
    /\ pc = "TightTunnels" /\ rQ > 0
    /\ \E numTunnels \in 0..1, notunnel \in BOOLEAN :
           Commit(negotiateTightTunnels(Consume(World), numTunnels, notunnel))

NegotiateTightSubAuth ==
    /\ pc = "TightSubAuth" /\ rQ > 0
    /\ \E caps \in SUBSET (TightAuthNames \cup {"UNKNOWNAUTH_"}) :
           Commit(negotiateTightSubAuth(Consume(World), caps))

NegotiateVeNCryptVersion ==
    /\ pc = "VeNCryptVersion" /\ rQ > 0
    /\ \E supported \in BOOLEAN :
           Commit(negotiateVeNCryptVersion(Consume(World), supported))

NegotiateVeNCryptSubtypes ==
    /\ pc = "VeNCryptSubtypes" /\ rQ > 0
    /\ \E ack \in 0..1, list \in VeNCryptSubtypes :
           Commit(negotiateVeNCryptSubtypes(Consume(World), ack, list))

NegotiateRA2ServerKey ==
    /\ pc = "RA2ServerKey" /\ rQ > 0
    /\ \E valid \in BOOLEAN :
           Commit(negotiateRA2ServerKey(Consume(World), valid))

NegotiateRA2ClientKey ==
    /\ pc = "ApproveServer" /\ ~approveServerResolve
    /\ Commit(negotiateRA2ClientKey(World))

NegotiateRA2ServerRandom ==
    /\ pc = "RA2ServerRandom" /\ rQ > 0
    /\ \E valid \in BOOLEAN :
           Commit(negotiateRA2ServerRandom(Consume(World), valid))

NegotiateRA2ServerHash ==
    /\ pc = "RA2ServerHash" /\ rQ > 0
    /\ \E valid \in BOOLEAN :
           Commit(negotiateRA2ServerHash(Consume(World), valid))

NegotiateRA2Subtype ==
    /\ pc = "RA2Subtype" /\ rQ > 0
    /\ \E valid \in BOOLEAN :
           Commit(negotiateRA2Subtype(Consume(World), valid))

NegotiateRA2Credentials ==
    /\ pc = "RA2Credentials" /\ ~credentialsResolve
    /\ Commit(IF rfbCredentials THEN negotiateRA2Credentials(World)
              ELSE getCredentials(World))

\* API: approveServer()
ApproveServer ==
    /\ ~Runnable
    /\ approveServerResolve
    /\ Commit([World EXCEPT !.approveServerResolve = FALSE])

\* ------------------------------------------------- ServerInitialisation
\* _negotiateServerInit from the end of its reads: _resize, the three
\* messages and the state change
negotiateServerInitFinish(w) ==
    LET w1 == dispatchEvent([w EXCEPT !.fbWidth = w.initSize[1],
                                      !.fbHeight = w.initSize[2],
                                      !.initSize = << >>],
                            Ev("desktopname", "", ""))
        w2 == sockFlush(w1, Msg("SetPixelFormat", "", ""))
        w3 == sockFlush(w2, Msg("SetEncodings", "", ""))
        w4 == sockFlush(w3, MsgFbUpdateRequest(FALSE, w3.fbWidth, w3.fbHeight))
    IN  return(updateConnectionState(w4, "connected"))

\* _negotiateServerInit that does not read the TightVNC extension
negotiateServerInit_noTight(w, size) ==
    negotiateServerInitFinish(log([w EXCEPT !.initSize = size],
                                  Recv("ServerInit", size)))

\* _negotiateServerInit: the reads every server answers
negotiateServerInit(w, size) ==
    LET w1 == log([w EXCEPT !.initSize = size], Recv("ServerInit", size))
    IN  IF w1.rfbTightVNC THEN [w1 EXCEPT !.pc = "ServerInitTight"]
        ELSE negotiateServerInitFinish(w1)

\* _negotiateServerInit: the reads of the TightVNC extension
negotiateServerInitTight(w) ==
    negotiateServerInitFinish(log(w, Recv("ServerInitTight", "")))

NegotiateServerInit ==
    /\ pc = "ServerInit" /\ rQ > 0
    /\ \E size \in FbSizes : Commit(negotiateServerInit(Consume(World), size))

NegotiateServerInitTight ==
    /\ pc = "ServerInitTight" /\ rQ > 0
    /\ Commit(negotiateServerInitTight(Consume(World)))

\* ------------------------------------------------------- the normal loop
\* message types of the server: FramebufferUpdate, SetColorMapEntries,
\* EndOfContinuousUpdates and one the client does not know
NormalMsgTypes == {0, 1, 150, 255}
\* what a rectangle header announces: a rectangle whose decoder reads
\* payload, one whose decoder reads nothing (a Raw rectangle of no area), the
\* LastRect pseudo-rectangle, an encoding without decoder
RectKinds == {"data", "empty", "LastRect", "unsupported"}

updateContinuousUpdates(w) ==
    IF ~w.enabledContinuousUpdates THEN w
    ELSE sockFlush(w, Msg("EnableContinuousUpdates", TRUE,
                          <<0, 0, w.fbWidth, w.fbHeight>>))

\* _normalMsg after _framebufferUpdate has returned
framebufferUpdateRequest(w) ==
    return(IF ~w.enabledContinuousUpdates
           THEN sockFlush(w, MsgFbUpdateRequest(TRUE, w.fbWidth, w.fbHeight))
           ELSE w)

\* _framebufferUpdate: the rectangle loop, from its condition
rectLoop(w) ==
    IF w.rects > 0 THEN [w EXCEPT !.pc = "Rect"]
    ELSE framebufferUpdateRequest(w)

\* _framebufferUpdate: the header and the wait for the renderer
framebufferUpdate(w, n) ==
    LET w1 == [w EXCEPT !.rects = n]
    IN  IF w1.displayPending THEN [w1 EXCEPT !.pc = "DisplayFlush"]
        ELSE rectLoop(w1)

\* _handleDataRect with a decoder for the encoding.  decoded: the decoder
\* accepts the payload; queued: it leaves work in the renderer's queue.
handleDataRect(w, decoded, queued) ==
    IF decoded
    THEN rectLoop([w EXCEPT !.rects = @ - 1,
                            !.displayPending = @ \/ queued])
    ELSE throw(w)

\* _framebufferUpdate: one rectangle, its header and what follows it, and
\* _handleRect
handleRect(w, kind, decoded, queued) ==
    CASE kind = "LastRect" -> framebufferUpdateRequest([w EXCEPT !.rects = 0])
      [] kind = "data" -> handleDataRect(w, decoded, queued)
      [] kind = "empty" -> rectLoop([w EXCEPT !.rects = @ - 1])
      [] OTHER -> throw(w)

\* _normalMsg; n is the rectangle count of a FramebufferUpdate
normalMsg(w, msgType, n) ==
    CASE msgType = 0 -> framebufferUpdate(w, n)
      [] msgType = 150 ->
             LET first == ~w.supportsContinuousUpdates
                 w1 == [w EXCEPT !.supportsContinuousUpdates = TRUE,
                                 !.enabledContinuousUpdates = first]
             IN  return(updateContinuousUpdates(w1))
      [] OTHER -> throw(w)

NormalMsg ==
    /\ pc = "NormalMsg" /\ rQ > 0
    /\ \E msgType \in NormalMsgTypes, n \in 0..MaxRects :
           Commit(normalMsg(Consume(World), msgType, n))

\* driver: the renderer's flush() has completed
FramebufferUpdateFlushed ==
    /\ pc = "DisplayFlush" /\ ~displayPending
    /\ Commit(rectLoop(World))

HandleRect ==
    /\ pc = "Rect" /\ rQ > 0
    /\ \E kind \in RectKinds, decoded \in BOOLEAN, queued \in BOOLEAN :
           Commit(handleRect(Consume(World), kind, decoded, queued))

\* renderer: the render queue has drained
DisplayFlushed ==
    /\ ~Runnable
    /\ displayPending
    /\ Commit([World EXCEPT !.displayPending = FALSE])

Next ==
    \/ TransportOpen
    \/ TransportMessage
    \/ TransportClose
    \/ Disconnect
    \/ DisconnectTimeout
    \/ SendCredentials
    \/ MessageLoop
    \/ MessageLoopCatch
    \/ NegotiateProtocolVersion
    \/ NegotiateSecurity
    \/ NegotiateSecurityChoose
    \/ HandleSecurityReason
    \/ HandleSecurityResult
    \/ GetCredentials
    \/ NegotiateChallengeAuth
    \/ NegotiateTightTunnels
    \/ NegotiateTightSubAuth
    \/ NegotiateVeNCryptVersion
    \/ NegotiateVeNCryptSubtypes
    \/ NegotiateRA2ServerKey
    \/ NegotiateRA2ClientKey
    \/ NegotiateRA2ServerRandom
    \/ NegotiateRA2ServerHash
    \/ NegotiateRA2Subtype
    \/ NegotiateRA2Credentials
    \/ ApproveServer
    \/ NegotiateServerInit
    \/ NegotiateServerInitTight
    \/ NormalMsg
    \/ FramebufferUpdateFlushed
    \/ HandleRect
    \/ DisplayFlushed

Spec == Init /\ [][Next]_vars

\* The steps of the read driver.  They are microtasks: the event loop runs
\* them, before any task, as soon as they can run.
DriverStep ==
    \/ MessageLoop \/ MessageLoopCatch \/ NegotiateProtocolVersion
    \/ NegotiateSecurity \/ NegotiateSecurityChoose \/ HandleSecurityReason
    \/ HandleSecurityResult \/ GetCredentials \/ NegotiateChallengeAuth
    \/ NegotiateTightTunnels \/ NegotiateTightSubAuth
    \/ NegotiateVeNCryptVersion \/ NegotiateVeNCryptSubtypes
    \/ NegotiateRA2ServerKey \/ NegotiateRA2ClientKey
    \/ NegotiateRA2ServerRandom \/ NegotiateRA2ServerHash
    \/ NegotiateRA2Subtype \/ NegotiateRA2Credentials
    \/ NegotiateServerInit \/ NegotiateServerInitTight \/ NormalMsg
    \/ FramebufferUpdateFlushed \/ HandleRect

\* The event loop runs every runnable microtask and fires every timer that
\* stays pending.  Nothing is assumed of the transport, the server, the
\* renderer or the application.
LiveSpec == Spec /\ WF_vars(DriverStep) /\ WF_vars(DisconnectTimeout)

\* ============================================ the normal loop, byte by byte
\* A second specification follows the connected client through the bytes of
\* the server's messages.  The receive queue is a sequence of bytes; the
\* transport delivers them in chunks of any size; a read of n bytes
\* continues when n bytes are there.  The driver's position (pc) is the read
\* it awaits; reads that follow each other with no effect in between are one
\* position.

\* ------------------------------------------------------ program constants
encodingRaw == 0
encodingCopyRect == 1
encodingRRE == 2
encodingHextile == 5
encodingTight == 7
encodingJPEG == 21
encodingTightPNG == -260
pseudoEncodingLastRect == -224

\* ----------------------------------------------------------------- bytes
RECURSIVE Flatten(_)
Flatten(ss) == IF ss = << >> THEN << >> ELSE Head(ss) \o Flatten(Tail(ss))

\* big-endian integers as the server writes them
U16(v) == << v \div 256, v % 256 >>
U32(v) ==
    << v \div 16777216, (v \div 65536) % 256, (v \div 256) % 256, v % 256 >>
\* a signed 32-bit integer in two's complement
S32(v) ==
    IF v >= 0 THEN U32(v)
    ELSE LET b == U32((v + 2147483647) + 1) IN [b EXCEPT ![1] = @ + 128]

\* the value of rQshift16 on the bytes b
shift16(b) == b[1] * 256 + b[2]
\* the value of rQshift32 on the bytes b, as toSigned32bit (or >>= 0) gives
\* it: the integers of the model have 32 bits
signed32(b) ==
    (((IF b[1] >= 128 THEN b[1] - 256 ELSE b[1]) * 256 + b[2]) * 256 + b[3])
        * 256 + b[4]

\* Websock: the next n bytes of the receive queue, the queue without them,
\* and rQwait, which does not suspend: TRUE when fewer than n bytes are there
rQpeekBytes(w, n) == SubSeq(w.rQbuf, 1, n)
rQskipBytes(w, n) ==
    [w EXCEPT !.rQbuf = SubSeq(@, n + 1, Len(@)), !.rQi = @ + n]
rQwait(w, n) == Len(w.rQbuf) < n

\* -------------------------------------------------------------- renderer
\* A call of the renderer.  queued: the call leaves work in the render
\* queue, so that pending() holds until the queue has drained.
Draw(name, a, b) == Entry("draw", name, a, b)
displayCall(w, name, a, b, queued) ==
    [log(w, Draw(name, a, b)) EXCEPT !.displayPending = @ \/ queued]
displayFlip(w) == log(w, Draw("flip", "", ""))

\* ---------------------------------------------------------- the driver
\* _messageLoop: a handler of _normalMsg has returned
loopTop(w) ==
    IF w.rfbConnectionState = "connected"
    THEN [w EXCEPT !.pc = "msgType", !.loc = NoLocals]
    ELSE [w EXCEPT !.pc = "done", !.loc = NoLocals]

\* _normalMsg, case 0, after _framebufferUpdate has returned
framebufferUpdateDone(w) ==
    loopTop(IF ~w.enabledContinuousUpdates
            THEN sockFlush(w, MsgFbUpdateRequest(TRUE, w.fbWidth, w.fbHeight))
            ELSE w)

\* _framebufferUpdate that ends without flip()
framebufferUpdateFlip_noFlip(w) == framebufferUpdateDone(w)

\* _framebufferUpdate: the end of the rectangle loop
framebufferUpdateFlip(w) == framebufferUpdateDone(displayFlip(w))

\* _framebufferUpdate: the condition of the rectangle loop
framebufferUpdateLoop(w) ==
    IF w.rects > 0 THEN [w EXCEPT !.pc = "rectHeader"]
    ELSE framebufferUpdateFlip(w)

\* _framebufferUpdate: _handleRect has returned, the promise of decodeRect
\* having resolved to value
decodeRectResolved(w, value) ==
    framebufferUpdateLoop([w EXCEPT !.rects = @ - 1,
                                    !.decoders.done = value])

\* the same of a decodeRect that ends without a value to return
rectDone(w) == decodeRectResolved(w, "undefined")

\* _framebufferUpdate that does not ask the renderer
framebufferUpdateHeader_noFlush(w) ==
    LET n == shift16(SubSeq(w.rQbuf, 2, 3))
    IN  framebufferUpdateLoop(log([rQskipBytes(w, 3) EXCEPT !.rects = n],
                                  Recv("FramebufferUpdate", n)))

\* _framebufferUpdate: padding, the number of rectangles, the wait for the
\* renderer
framebufferUpdateHeader(w) ==
    LET n == shift16(SubSeq(w.rQbuf, 2, 3))
        w1 == log([rQskipBytes(w, 3) EXCEPT !.rects = n],
                  Recv("FramebufferUpdate", n))
    IN  IF w1.displayPending THEN [w1 EXCEPT !.pc = "fbuFlush"]
        ELSE framebufferUpdateLoop(w1)

\* ------------------------------------------------------------- decoders
fbDepth == 24

\* RawDecoder: the pixels of low colour mode as RGBX
rawLowColour(data) ==
    Flatten([i \in 1..Len(data) |->
                << (data[i] % 4) * 85, ((data[i] \div 4) % 4) * 85,
                   ((data[i] \div 16) % 4) * 85, 255 >>])

\* RawDecoder, HextileDecoder: every fourth byte, the alpha channel, set
opaque(data) == [i \in 1..Len(data) |-> IF i % 4 = 0 THEN 255 ELSE data[i]]

\* CopyRectDecoder.decodeRect.  When rQwait holds it returns false, and
\* _handleDataRect, which does not look at what decodeRect returns, returns.
decodeRectCopyRect(w, queued) ==
    IF rQwait(w, 4) THEN decodeRectResolved(w, "false")
    ELSE LET b == rQpeekBytes(w, 4)
             w1 == rQskipBytes(w, 4)
         IN  IF w.loc.width = 0 \/ w.loc.height = 0
             THEN decodeRectResolved(w1, "true")
             ELSE decodeRectResolved(
                      displayCall(
                          w1, "copyImage",
                          << shift16(SubSeq(b, 1, 2)),
                             shift16(SubSeq(b, 3, 4)) >>,
                          << w.loc.x, w.loc.y, w.loc.width, w.loc.height >>,
                          queued),
                      "true")

\* a product of two numbers of the code, which are not limited to 32 bits:
\* exact below 2^31, and 2^31 - 1 from there on, a number of bytes that no
\* server script holds, so that a read of that many bytes waits as the
\* read of the exact product does
times(a, b) ==
    LET most == 2147483647
    IN  IF a # 0 /\ b > most \div a THEN most ELSE a * b

\* RawDecoder.decodeRect up to its read
decodeRectRaw(w) ==
    IF w.loc.width = 0 \/ w.loc.height = 0 THEN rectDone(w)
    ELSE [w EXCEPT !.pc = "raw",
                   !.loc.length = times(times(w.loc.width, w.loc.height),
                                        IF fbDepth = 8 THEN 1 ELSE 4)]

\* RawDecoder.decodeRect from its read
decodeRectRawData(w, queued) ==
    LET data == rQpeekBytes(w, w.loc.length)
        rgbx == IF fbDepth = 8 THEN rawLowColour(data) ELSE data
    IN  rectDone(displayCall(
            rQskipBytes(w, w.loc.length), "blitImage",
            << w.loc.x, w.loc.y, w.loc.width, w.loc.height >>, opaque(rgbx),
            queued))

\* an unsigned 32-bit field: exact below 2^31, and 2^31 - 1 from there on,
\* more than any server script holds
shift32(b) ==
    IF b[1] >= 128 THEN 2147483647
    ELSE ((b[1] * 256 + b[2]) * 256 + b[3]) * 256 + b[4]

\* RREDecoder.decodeRect: while (this._subrects > 0)
rreLoop(w) ==
    IF w.decoders.subrects > 0 THEN [w EXCEPT !.pc = "rreSub"]
    ELSE rectDone(w)

\* RREDecoder.decodeRect up to its first read
decodeRectRRE(w) ==
    IF w.decoders.subrects = 0 THEN [w EXCEPT !.pc = "rre"] ELSE rreLoop(w)

\* RREDecoder.decodeRect: the number of subrectangles and the background
decodeRectRREHeader(w, queued) ==
    LET b == rQpeekBytes(w, 8)
        w1 == [rQskipBytes(w, 8) EXCEPT
                  !.decoders.subrects = shift32(SubSeq(b, 1, 4))]
    IN  rreLoop(displayCall(
            w1, "fillRect",
            << w.loc.x, w.loc.y, w.loc.width, w.loc.height >>,
            SubSeq(b, 5, 8), queued))

\* one subrectangle filled at its own position, not at its position in the
\* rectangle
decodeRectRRESubrect_absolute(w, queued) ==
    LET b == rQpeekBytes(w, 12)
        w1 == displayCall(rQskipBytes(w, 12), "fillRect",
                          << shift16(SubSeq(b, 5, 6)),
                             shift16(SubSeq(b, 7, 8)),
                             shift16(SubSeq(b, 9, 10)),
                             shift16(SubSeq(b, 11, 12)) >>,
                          SubSeq(b, 1, 4), queued)
    IN  rreLoop([w1 EXCEPT !.decoders.subrects = @ - 1])

\* RREDecoder.decodeRect: one subrectangle
decodeRectRRESubrect(w, queued) ==
    LET b == rQpeekBytes(w, 12)
        sx == shift16(SubSeq(b, 5, 6))
        sy == shift16(SubSeq(b, 7, 8))
        swidth == shift16(SubSeq(b, 9, 10))
        sheight == shift16(SubSeq(b, 11, 12))
        w1 == displayCall(rQskipBytes(w, 12), "fillRect",
                          << w.loc.x + sx, w.loc.y + sy, swidth, sheight >>,
                          SubSeq(b, 1, 4), queued)
    IN  rreLoop([w1 EXCEPT !.decoders.subrects = @ - 1])

\* HextileDecoder.decodeRect: the tiles of the rectangle
tilesX(w) == (w.loc.width + 15) \div 16
tilesY(w) == (w.loc.height + 15) \div 16
totalTiles(w) == tilesX(w) * tilesY(w)
Min(a, b) == IF a <= b THEN a ELSE b
tx(w) == w.loc.x + (w.loc.currTile % tilesX(w)) * 16
ty(w) == w.loc.y + (w.loc.currTile \div tilesX(w)) * 16
tw(w) == Min(16, (w.loc.x + w.loc.width) - tx(w))
th(w) == Min(16, (w.loc.y + w.loc.height) - ty(w))
tileRect(w) == << tx(w), ty(w), tw(w), th(w) >>

\* bit k (of value 2^k = m) of a byte
Bit(v, m) == (v \div m) % 2 = 1

\* HextileDecoder.decodeRect: for (currTile < totalTiles)
hextileLoop(w) ==
    IF w.loc.currTile < totalTiles(w) THEN [w EXCEPT !.pc = "hextile"]
    ELSE rectDone(w)

\* the end of a tile that leaves no colour to the next one
tileDone_forgets(w) ==
    hextileLoop([w EXCEPT !.loc.lastSubEncoding = w.loc.subencoding,
                          !.loc.currTile = @ + 1,
                          !.loc.background = << >>,
                          !.loc.foreground = << >>])

\* HextileDecoder.decodeRect: lastSubEncoding = subencoding; currTile++
tileDone(w) ==
    hextileLoop([w EXCEPT !.loc.lastSubEncoding = w.loc.subencoding,
                          !.loc.currTile = @ + 1])

\* HextileDecoder.decodeRect up to its first read; no colour is defined
decodeRectHextile(w) ==
    hextileLoop([w EXCEPT !.loc.currTile = 0, !.loc.lastSubEncoding = 0,
                          !.loc.background = << >>,
                          !.loc.foreground = << >>])

\* HextileDecoder.decodeRect: the tile buffer with the pixels of a
\* subrectangle set.  The buffer holds 16 * 16 pixels row after row, a row
\* being tw pixels long; blitImage takes the first tw * th of them.
paintSubrect(tile, tileW, sx, sy, sw, sh, color) ==
    [p \in 1..Len(tile) |->
        IF \E j \in sy..sy + sh - 1 : \E i \in sx..sx + sw - 1 :
               p - 1 = i + j * tileW
        THEN << color[1], color[2], color[3], 255 >>
        ELSE tile[p]]

\* HextileDecoder.decodeRect: after the subrectangles
hextileSubrects(w, queued) ==
    IF w.loc.subrects > 0 THEN [w EXCEPT !.pc = "hextileSub"]
    ELSE tileDone(displayCall(w, "blitImage", tileRect(w),
                              Flatten(w.loc.tile), queued))

\* a tile without anything is filled whatever the tile before it was
decodeRectHextileTile_fills(w, queued) ==
    LET subencoding == w.rQbuf[1]
        w1 == [rQskipBytes(w, 1) EXCEPT !.loc.subencoding = subencoding]
    IN  IF subencoding > 30 THEN throw(w1)
        ELSE IF subencoding = 0
        THEN tileDone(displayCall(w1, "fillRect", tileRect(w1),
                                  w1.loc.background, queued))
        ELSE IF Bit(subencoding, 1)
        THEN [w1 EXCEPT !.pc = "hextileRaw",
                        !.loc.length = tw(w1) * th(w1) * 4]
        ELSE [w1 EXCEPT !.pc = "hextileColours",
                        !.loc.length = (IF Bit(subencoding, 2) THEN 4 ELSE 0)
                                     + (IF Bit(subencoding, 4) THEN 4 ELSE 0)]

\* HextileDecoder.decodeRect: the subencoding of a tile
decodeRectHextileTile(w, queued) ==
    LET subencoding == w.rQbuf[1]
        w1 == [rQskipBytes(w, 1) EXCEPT !.loc.subencoding = subencoding]
    IN  IF subencoding > 30 THEN throw(w1)
        ELSE IF subencoding = 0
        THEN IF Bit(w.loc.lastSubEncoding, 1) THEN tileDone(w1)
             ELSE tileDone(displayCall(w1, "fillRect", tileRect(w1),
                                       w1.loc.background, queued))
        ELSE IF Bit(subencoding, 1)
        THEN [w1 EXCEPT !.pc = "hextileRaw",
                        !.loc.length = tw(w1) * th(w1) * 4]
        ELSE [w1 EXCEPT !.pc = "hextileColours",
                        !.loc.length = (IF Bit(subencoding, 2) THEN 4 ELSE 0)
                                     + (IF Bit(subencoding, 4) THEN 4 ELSE 0)]

\* HextileDecoder.decodeRect: a raw tile
decodeRectHextileRaw(w, queued) ==
    tileDone(displayCall(rQskipBytes(w, w.loc.length), "blitImage",
                         tileRect(w),
                         opaque(rQpeekBytes(w, w.loc.length)), queued))

\* HextileDecoder.decodeRect: the colours of a tile; the tile filled with
\* the background
decodeRectHextileColours(w, queued) ==
    LET b == rQpeekBytes(w, w.loc.length)
        s == w.loc.subencoding
        bg == IF Bit(s, 2) THEN SubSeq(b, 1, 4) ELSE w.loc.background
        fg == IF Bit(s, 4) THEN SubSeq(b, Len(b) - 3, Len(b))
              ELSE w.loc.foreground
        w1 == [rQskipBytes(w, w.loc.length) EXCEPT
                  !.loc.background = bg, !.loc.foreground = fg]
    IN  IF bg = << >> THEN throw(w1)
        ELSE LET w2 == [w1 EXCEPT
                           !.loc.subrects = 0,
                           !.loc.tile = [p \in 1..tw(w) * th(w) |->
                                            << bg[1], bg[2], bg[3], 255 >>]]
             IN  IF Bit(s, 8) THEN [w2 EXCEPT !.pc = "hextileCount"]
                 ELSE hextileSubrects(w2, queued)

\* HextileDecoder.decodeRect: the number of subrectangles
decodeRectHextileCount(w, queued) ==
    hextileSubrects(
        [rQskipBytes(w, 1) EXCEPT
            !.loc.subrects = w.rQbuf[1],
            !.loc.length = (IF Bit(w.loc.subencoding, 16) THEN 4 ELSE 0) + 2],
        queued)

\* HextileDecoder.decodeRect: one subrectangle
decodeRectHextileSubrect(w, queued) ==
    LET b == rQpeekBytes(w, w.loc.length)
        color == IF Bit(w.loc.subencoding, 16) THEN SubSeq(b, 1, 4)
                 ELSE w.loc.foreground
        xy == b[Len(b) - 1]
        wh == b[Len(b)]
        w1 == rQskipBytes(w, w.loc.length)
    IN  IF color = << >> THEN throw(w1)
        ELSE hextileSubrects(
                 [w1 EXCEPT
                     !.loc.subrects = @ - 1,
                     !.loc.tile = paintSubrect(@, tw(w), xy \div 16, xy % 16,
                                               (wh \div 16) + 1,
                                               (wh % 16) + 1, color)],
                 queued)

\* ------------------------------------------------------- Tight, TightPNG
\* Inflator: a stream is what it has put out since its last reset.  The
\* compressed form is a sequence of literals (a byte from 1 to 127 stands
\* for itself, a byte 0 announces the byte after it) and references (a byte
\* 127 + d repeats the byte that was put out d bytes earlier); a reference
\* beyond the beginning of the stream and an announcement without byte fail.
RECURSIVE inflateBytes(_, _, _)
inflateBytes(stream, data, out) ==
    IF data = << >> THEN [ok |-> TRUE, stream |-> stream, out |-> out]
    ELSE IF Head(data) = 0
    THEN IF Len(data) < 2 THEN [ok |-> FALSE, stream |-> stream, out |-> out]
         ELSE inflateBytes(Append(stream, data[2]), SubSeq(data, 3, Len(data)),
                           Append(out, data[2]))
    ELSE IF Head(data) < 128
    THEN inflateBytes(Append(stream, Head(data)), Tail(data),
                      Append(out, Head(data)))
    ELSE IF Head(data) - 127 > Len(stream)
    THEN [ok |-> FALSE, stream |-> stream, out |-> out]
    ELSE LET byte == stream[Len(stream) - (Head(data) - 127) + 1]
         IN  inflateBytes(Append(stream, byte), Tail(data), Append(out, byte))

\* Inflator.setInput, inflate(expected): the output, or failure
inflate(stream, data, expected) ==
    LET r == inflateBytes(stream, data, << >>)
    IN  [r EXCEPT !.ok = r.ok /\ Len(r.out) = expected]

\* this._zlibs of the decoder of an encoding
zlibsOf(encoding) ==
    IF encoding = encodingTightPNG THEN "zlibsTightPNG" ELSE "zlibsTight"

Zlib(name, a, b) == Entry("zlib", name, a, b)

\* TightDecoder.decodeRect that resets every stream for every rectangle
RECURSIVE resetStreams_all(_, _, _)
resetStreams_all(w, ctl, i) ==
    IF i = 4 THEN w
    ELSE resetStreams_all(
             log([w EXCEPT !.decoders[zlibsOf(w.loc.encoding)][i + 1] = << >>],
                 Zlib("reset", << w.loc.encoding, i >>, "")),
             ctl, i + 1)

\* TightDecoder.decodeRect: this._zlibs[i].reset() for the bits of ctl
RECURSIVE resetStreams(_, _, _)
resetStreams(w, ctl, i) ==
    IF i = 4 THEN w
    ELSE IF (ctl \div (2 ^ i)) % 2 = 1
    THEN resetStreams(
             log([w EXCEPT !.decoders[zlibsOf(w.loc.encoding)][i + 1] = << >>],
                 Zlib("reset", << w.loc.encoding, i >>, "")),
             ctl, i + 1)
    ELSE resetStreams(w, ctl, i + 1)

\* TightDecoder._readData up to its first read
readData(w, kind) ==
    [w EXCEPT !.pc = "tightLen", !.loc.kind = kind, !.loc.length = 0,
              !.loc.lenBytes = 0]

\* TightDecoder._copyFilter, _paletteFilter: how the pixel data of
\* uncompressedSize bytes comes
tightPixelData(w, uncompressedSize) ==
    IF uncompressedSize = 0 THEN rectDone(w)
    ELSE IF uncompressedSize < 12
    THEN [w EXCEPT !.pc = "tightRaw", !.loc.length = uncompressedSize,
                   !.loc.size = uncompressedSize]
    ELSE [readData(w, "zlib") EXCEPT !.loc.size = uncompressedSize]

\* TightDecoder._copyFilter up to its first read
copyFilter(w) ==
    tightPixelData([w EXCEPT !.loc.filter = 0],
                   times(times(w.loc.width, w.loc.height), 3))

\* TightDecoder._basicRect up to its first read; TightPNGDecoder._basicRect
basicRect(w) ==
    IF w.loc.encoding = encodingTightPNG THEN throw(w)
    ELSE LET w1 == [w EXCEPT !.loc.streamId = w.loc.ctl % 4]
         IN  IF Bit(w.loc.ctl, 4) THEN [w1 EXCEPT !.pc = "tightFilter"]
             ELSE copyFilter(w1)

\* TightDecoder.decodeRect: the control byte
decodeRectTightCtl(w) ==
    LET ctl == w.rQbuf[1]
        w1 == [resetStreams(rQskipBytes(w, 1), ctl, 0) EXCEPT
                  !.loc.ctl = ctl \div 16]
    IN  CASE ctl \div 16 = 8 -> [w1 EXCEPT !.pc = "tightFill"]
          [] ctl \div 16 = 9 -> readData(w1, "image/jpeg")
          [] ctl \div 16 = 10 ->
                 IF w.loc.encoding = encodingTightPNG
                 THEN readData(w1, "image/png") ELSE throw(w1)
          [] ctl \div 16 < 8 -> basicRect(w1)
          [] OTHER -> throw(w1)

\* TightDecoder._fillRect
tightFillRect(w, queued) ==
    rectDone(displayCall(rQskipBytes(w, 3), "fillRect",
                         << w.loc.x, w.loc.y, w.loc.width, w.loc.height >>,
                         rQpeekBytes(w, 3), queued))

\* TightDecoder._basicRect: the filter byte
basicRectFilter(w) ==
    LET filter == w.rQbuf[1]
        w1 == [rQskipBytes(w, 1) EXCEPT !.loc.filter = filter]
    IN  CASE filter = 0 -> copyFilter(w1)
          [] filter = 1 -> [w1 EXCEPT !.pc = "tightPalette"]
          [] OTHER -> throw(w1)

\* TightDecoder._paletteFilter: the number of colours
paletteFilterColors(w) ==
    [rQskipBytes(w, 1) EXCEPT !.pc = "tightPaletteData",
                              !.loc.numColors = w.rQbuf[1] + 1,
                              !.loc.length = (w.rQbuf[1] + 1) * 3]

\* TightDecoder._paletteFilter: the palette
paletteFilterPalette(w) ==
    LET bpp == IF w.loc.numColors <= 2 THEN 1 ELSE 8
        rowSize == (w.loc.width * bpp + 7) \div 8
    IN  tightPixelData(
            [rQskipBytes(w, w.loc.length) EXCEPT
                !.loc.palette = rQpeekBytes(w, w.loc.length)],
            times(rowSize, w.loc.height))

\* an element of a typed array, read at an index inside or outside of it
\* and stored into a Uint8Array
At(s, i) == IF i \in 1..Len(s) THEN s[i] ELSE 0

\* TightDecoder._copyFilter: RGB to RGBX
copyRgbx(w, data) ==
    Flatten([p \in 1..w.loc.width * w.loc.height |->
                << At(data, 3 * p - 2), At(data, 3 * p - 1), At(data, 3 * p),
                   255 >>])

\* TightDecoder._monoRect: a bit per pixel, the rows padded to whole bytes
monoRect(w, data) ==
    LET rowBytes == (w.loc.width + 7) \div 8
        pal == w.loc.palette
    IN  Flatten([p \in 1..w.loc.width * w.loc.height |->
            LET row == (p - 1) \div w.loc.width
                col == (p - 1) % w.loc.width
                byte == At(data, row * rowBytes + (col \div 8) + 1)
                sp == ((byte \div (2 ^ (7 - (col % 8)))) % 2) * 3
            IN  << At(pal, sp + 1), At(pal, sp + 2), At(pal, sp + 3), 255 >>])

\* TightDecoder._paletteRect: a byte per pixel
paletteRect(w, data) ==
    LET pal == w.loc.palette
    IN  Flatten([p \in 1..w.loc.width * w.loc.height |->
            IF p > Len(data) THEN << 0, 0, 0, 255 >>
            ELSE << At(pal, data[p] * 3 + 1), At(pal, data[p] * 3 + 2),
                    At(pal, data[p] * 3 + 3), 255 >>])

\* TightDecoder._copyFilter, _paletteFilter: from the pixel data on
tightBlit(w, data, queued) ==
    LET rgbx == IF w.loc.filter = 0 THEN copyRgbx(w, data)
                ELSE IF w.loc.numColors = 2 THEN monoRect(w, data)
                ELSE paletteRect(w, data)
    IN  rectDone(displayCall(
            w, "blitImage",
            << w.loc.x, w.loc.y, w.loc.width, w.loc.height >>, rgbx, queued))

\* TightDecoder._copyFilter, _paletteFilter: pixel data that is not
\* compressed
tightRawData(w, queued) ==
    tightBlit(rQskipBytes(w, w.loc.length), rQpeekBytes(w, w.loc.length),
              queued)

\* a compact length of groups of 8 bits
readDataLength_bytes(w) ==
    LET byte == w.rQbuf[1]
        n == w.loc.lenBytes
        len == w.loc.length
                   + (IF n = 2 THEN byte ELSE byte % 128) * (256 ^ n)
        w1 == [rQskipBytes(w, 1) EXCEPT !.loc.length = len,
                                        !.loc.lenBytes = n + 1]
    IN  IF n < 2 /\ byte >= 128 THEN w1 ELSE [w1 EXCEPT !.pc = "tightData"]

\* TightDecoder._readData: a byte of the compact length
readDataLength(w) ==
    LET byte == w.rQbuf[1]
        n == w.loc.lenBytes
        len == w.loc.length
                   + (IF n = 2 THEN byte ELSE byte % 128) * (128 ^ n)
        w1 == [rQskipBytes(w, 1) EXCEPT !.loc.length = len,
                                        !.loc.lenBytes = n + 1]
    IN  IF n < 2 /\ byte >= 128 THEN w1 ELSE [w1 EXCEPT !.pc = "tightData"]

\* TightDecoder._readData: the data; and what its caller does with it
readDataBytes(w, queued) ==
    LET data == rQpeekBytes(w, w.loc.length)
        w1 == rQskipBytes(w, w.loc.length)
        rect == << w.loc.x, w.loc.y, w.loc.width, w.loc.height >>
    IN  IF w.loc.kind = "zlib"
        THEN LET z == zlibsOf(w.loc.encoding)
                 i == w.loc.streamId + 1
                 r == inflate(w.decoders[z][i], data, w.loc.size)
                 w2 == log([w1 EXCEPT !.decoders[z][i] = r.stream],
                           Zlib("inflate", << w.loc.encoding, i - 1 >>, data))
             IN  IF r.ok THEN tightBlit(w2, r.out, queued) ELSE throw(w2)
        ELSE rectDone(displayCall(w1, "imageRect", rect,
                                  << w.loc.kind, data >>, queued))

\* ------------------------------------------------------------------ JPEG
\* JPEGDecoder.decodeRect: the segments of a type
segmentsOfType(segments, ts) ==
    SelectSeq(segments, LAMBDA s : s[2] \in ts)

\* Array.findIndex of the first frame header (SOF0, SOF2), counted from 1;
\* 0 when there is none
sofIndex(segments) ==
    IF \E k \in 1..Len(segments) : segments[k][2] \in {192, 194}
    THEN CHOOSE k \in 1..Len(segments) :
             /\ segments[k][2] \in {192, 194}
             /\ \A m \in 1..k - 1 : segments[m][2] \notin {192, 194}
    ELSE 0

\* Array.splice(index, 0, ...items), index counted from 0
splice(segments, index, items) ==
    SubSeq(segments, 1, index) \o items
        \o SubSeq(segments, index + 1, Len(segments))

\* JPEGDecoder.decodeRect that passes the rectangle's segments on as they
\* are
jpegImage_noCache(w, segments, queued) ==
    IF sofIndex(segments) = 0 THEN throw(w)
    ELSE rectDone(displayCall(
             w, "imageRect",
             << w.loc.x, w.loc.y, w.loc.width, w.loc.height >>,
             << "image/jpeg", Flatten(segments) >>, queued))

\* JPEGDecoder.decodeRect: from the end of the image on
jpegImage(w, segments, queued) ==
    LET huffmanTables == segmentsOfType(segments, {196})
        quantTables == segmentsOfType(segments, {219})
        sof == sofIndex(segments)
        s1 == IF quantTables = << >>
              THEN splice(segments, sof, w.decoders.cachedQuantTables)
              ELSE segments
        s2 == IF huffmanTables = << >>
              THEN splice(s1, sof, w.decoders.cachedHuffmanTables)
              ELSE s1
        w1 == displayCall(w, "imageRect",
                          << w.loc.x, w.loc.y, w.loc.width, w.loc.height >>,
                          << "image/jpeg", Flatten(s2) >>, queued)
    IN  IF sof = 0 THEN throw(w)
        ELSE rectDone(
                 [w1 EXCEPT
                     !.decoders.cachedHuffmanTables =
                         IF huffmanTables # << >> THEN huffmanTables ELSE @,
                     !.decoders.cachedQuantTables =
                         IF quantTables # << >> THEN quantTables ELSE @])

\* JPEGDecoder.decodeRect: a segment has been read
jpegSegment(w, segment, queued) ==
    IF segment[2] = 217 THEN jpegImage(w, Append(w.loc.segments, segment), queued)
    ELSE [w EXCEPT !.pc = "jpegMarker", !.loc.segments = Append(@, segment)]

\* JPEGDecoder._readSegment: the marker
readSegmentMarker(w) ==
    IF w.rQbuf[1] # 255 THEN throw(rQskipBytes(w, 1))
    ELSE [rQskipBytes(w, 1) EXCEPT !.pc = "jpegType"]

\* JPEGDecoder._readSegment: the type
readSegmentType(w, queued) ==
    LET type == w.rQbuf[1]
        w1 == [rQskipBytes(w, 1) EXCEPT !.loc.type = type]
    IN  IF type \in 208..217 \/ type = 1
        THEN jpegSegment(w1, << 255, type >>, queued)
        ELSE [w1 EXCEPT !.pc = "jpegLength"]

\* JPEGDecoder._readSegment: the length
readSegmentLength(w) ==
    LET length == shift16(rQpeekBytes(w, 2))
        w1 == [rQskipBytes(w, 2) EXCEPT !.loc.length = length]
    IN  IF length < 2 THEN throw(w1)
        ELSE IF w.loc.type = 218
        THEN [w1 EXCEPT !.pc = "jpegScan", !.loc.extra = 2]
        ELSE [w1 EXCEPT !.pc = "jpegData", !.loc.extra = 0]

\* JPEGDecoder._readSegment: the segment from its length and its bytes
readSegmentData(w, queued) ==
    LET n == w.loc.length - 2 + w.loc.extra
    IN  jpegSegment(rQskipBytes(w, n),
                    << 255, w.loc.type, w.loc.length \div 256,
                       w.loc.length % 256 >> \o rQpeekBytes(w, n),
                    queued)

\* JPEGDecoder._readSegment: the search for the end of the scan data
readSegmentScan(w, queued) ==
    LET data == rQpeekBytes(w, w.loc.length - 2 + w.loc.extra)
        last == data[Len(data)]
    IN  IF data[Len(data) - 1] = 255 /\ last # 0 /\ last \notin 208..215
        THEN readSegmentData([w EXCEPT !.loc.extra = @ - 2], queued)
        ELSE [w EXCEPT !.loc.extra = @ + 1]

\* _handleDataRect: the decoder of the encoding, up to its first read that
\* has to wait
decodeRect(w, queued) ==
    CASE w.loc.encoding = encodingRaw -> decodeRectRaw(w)
      [] w.loc.encoding = encodingCopyRect -> decodeRectCopyRect(w, queued)
      [] w.loc.encoding = encodingRRE -> decodeRectRRE(w)
      [] w.loc.encoding = encodingHextile -> decodeRectHextile(w)
      [] w.loc.encoding \in {encodingTight, encodingTightPNG} ->
             [w EXCEPT !.pc = "tight"]
      [] w.loc.encoding = encodingJPEG -> [w EXCEPT !.pc = "jpegMarker"]
      [] OTHER -> throw(w)

\* _framebufferUpdate: the header of a rectangle, and _handleRect
framebufferUpdateRect(w, queued) ==
    LET b == rQpeekBytes(w, 12)
        l == [NoLocals EXCEPT
                 !.x = shift16(SubSeq(b, 1, 2)),
                 !.y = shift16(SubSeq(b, 3, 4)),
                 !.width = shift16(SubSeq(b, 5, 6)),
                 !.height = shift16(SubSeq(b, 7, 8)),
                 !.encoding = signed32(SubSeq(b, 9, 12))]
        w1 == log([rQskipBytes(w, 12) EXCEPT !.loc = l],
                  Recv("Rect", << l.x, l.y, l.width, l.height, l.encoding >>))
    IN  IF l.encoding = pseudoEncodingLastRect THEN framebufferUpdateFlip(w1)
        ELSE decodeRect(w1, queued)

\* --------------------------------------------------------- ServerCutText
extendedClipboardFormatText == 1
\* the actions of the extended clipboard: 1 << 24 ... 1 << 28
extendedClipboardActionCaps == 16777216
extendedClipboardActionRequest == 33554432
extendedClipboardActionPeek == 67108864
extendedClipboardActionNotify == 134217728
extendedClipboardActionProvide == 268435456
\* the client's actions: all of them
clientActions ==
    extendedClipboardActionCaps + extendedClipboardActionRequest
        + extendedClipboardActionPeek + extendedClipboardActionNotify
        + extendedClipboardActionProvide

\* decodeUTF8: the code points of a string of bytes, or failure.  Sequences
\* of one, two and three bytes.
RECURSIVE decodeUTF8(_)
decodeUTF8(s) ==
    LET cont(k) == k <= Len(s) /\ s[k] \in 128..191
        rest(k) == decodeUTF8(SubSeq(s, k, Len(s)))
        with(c, r) == [r EXCEPT !.text = << c >> \o @]
    IN  IF s = << >> THEN [ok |-> TRUE, text |-> << >>]
        ELSE IF s[1] < 128 THEN with(s[1], rest(2))
        ELSE IF s[1] \in 194..223 /\ cont(2)
        THEN with((s[1] - 192) * 64 + (s[2] - 128), rest(3))
        ELSE IF s[1] \in 224..239 /\ cont(2) /\ cont(3)
        THEN with(((s[1] - 224) * 64 + (s[2] - 128)) * 64 + (s[3] - 128),
                  rest(4))
        ELSE [ok |-> FALSE, text |-> << >>]

\* String.replace("\r\n", "\n"): the pattern is a string, so the first
\* occurrence is replaced
replaceCRLF(text) ==
    LET at == {k \in 1..Len(text) - 1 : text[k] = 13 /\ text[k + 1] = 10}
    IN  IF at = {} THEN text
        ELSE LET k == CHOOSE k \in at : \A m \in at : k <= m
             IN  SubSeq(text, 1, k - 1) \o SubSeq(text, k + 1, Len(text))

\* String.replace(/\r\n|\r|\n/gm, "\r\n")
RECURSIVE toCRLF(_)
toCRLF(text) ==
    IF text = << >> THEN << >>
    ELSE IF Len(text) >= 2 /\ text[1] = 13 /\ text[2] = 10
    THEN << 13, 10 >> \o toCRLF(SubSeq(text, 3, Len(text)))
    ELSE IF text[1] \in {10, 13} THEN << 13, 10 >> \o toCRLF(Tail(text))
    ELSE << text[1] >> \o toCRLF(Tail(text))

\* the numbers i of the bits set in the format flags, 0..15
formatBits(formats) == {i \in 0..15 : (formats \div (2 ^ i)) % 2 = 1}
\* flags & 0xFF000000, a signed number, from the first byte of the flags
actionsOf(byte) == (IF byte >= 128 THEN byte - 256 ELSE byte) * 16777216
\* the actions 1 << i, i = 24..31, set in the first byte of the flags
actionBits(byte) ==
    {actionsOf(2 ^ i) : i \in {i \in 0..7 : (byte \div (2 ^ i)) % 2 = 1}}

MsgClientCutText(action, data) == Msg("ClientCutText", action, data)

\* _handleServerCutText: padding and length
handleServerCutText(w) ==
    LET length == signed32(SubSeq(w.rQbuf, 4, 7))
        w1 == log(rQskipBytes(w, 7),
                  Entry("recv", "ServerCutText", length, w.rQi + 7))
    IN  IF length >= 0
        THEN [w1 EXCEPT !.pc = "cutTextStd", !.loc.length = length]
        ELSE [w1 EXCEPT !.pc = "cutTextFlags", !.loc.length = 0 - length]

\* _handleServerCutText: Standard msg
serverCutTextStandard(w) ==
    LET text == rQpeekBytes(w, w.loc.length)
        w1 == rQskipBytes(w, w.loc.length)
    IN  IF w.viewOnly THEN loopTop(w1)
        ELSE loopTop(dispatchEvent(w1, Ev("clipboard", text, "")))

\* _handleServerCutText: the capabilities are read; the client's own
extendedClipboardCapsDone(w) ==
    LET w1 == [w EXCEPT !.clipboard.formats = formatBits(w.loc.flags),
                        !.clipboard.actions = actionBits(w.loc.ctl)]
    IN  loopTop(sockFlush(
            w1, MsgClientCutText(
                    "Caps", << clientActions, extendedClipboardFormatText >>)))

\* _handleServerCutText: Extended msg, the flags
serverCutTextFlags(w) ==
    LET b == rQpeekBytes(w, 4)
        formats == b[3] * 256 + b[4]
        actions == actionsOf(b[1])
        text == formats % 2 = 1
        w1 == [rQskipBytes(w, 4) EXCEPT !.loc.flags = formats,
                                        !.loc.ctl = b[1]]
    IN  IF b[1] % 2 = 1
        THEN LET w2 == [w1 EXCEPT !.clipboard.formats = {},
                                  !.clipboard.actions = {},
                                  !.loc.subrects =
                                      Cardinality(formatBits(formats))]
             IN  IF w2.loc.subrects > 0 THEN [w2 EXCEPT !.pc = "cutTextCaps"]
                 ELSE extendedClipboardCapsDone(w2)
        ELSE IF actions = extendedClipboardActionRequest
        THEN IF w.viewOnly THEN loopTop(w1)
             ELSE IF /\ w.clipboard.hasText
                     /\ extendedClipboardActionProvide \in w.clipboard.actions
                     /\ text
             THEN loopTop(sockFlush(
                      w1, MsgClientCutText(
                              "Provide",
                              toCRLF(w.clipboard.text) \o << 0 >>)))
             ELSE loopTop(w1)
        ELSE IF actions = extendedClipboardActionPeek
        THEN IF w.viewOnly THEN loopTop(w1)
             ELSE IF extendedClipboardActionNotify \in w.clipboard.actions
             THEN loopTop(sockFlush(
                      w1, MsgClientCutText(
                              "Notify",
                              IF w.clipboard.hasText
                              THEN << extendedClipboardFormatText >>
                              ELSE << >>)))
             ELSE loopTop(w1)
        ELSE IF actions = extendedClipboardActionNotify
        THEN IF w.viewOnly THEN loopTop(w1)
             ELSE IF /\ extendedClipboardActionRequest \in w.clipboard.actions
                     /\ text
             THEN loopTop(sockFlush(
                      w1, MsgClientCutText(
                              "Request", << extendedClipboardFormatText >>)))
             ELSE loopTop(w1)
        ELSE IF actions = extendedClipboardActionProvide
        THEN IF w.viewOnly THEN loopTop(w1)
             ELSE IF ~text THEN loopTop(w1)
             ELSE [w1 EXCEPT !.pc = "cutTextProvide",
                             !.clipboard.hasText = FALSE,
                             !.clipboard.text = << >>,
                             !.loc.length = w.loc.length - 4]
        ELSE throw(w1)

\* _handleServerCutText: the size of a format of the server's capabilities
serverCutTextCaps(w) ==
    LET w1 == [rQskipBytes(w, 4) EXCEPT !.loc.subrects = @ - 1]
    IN  IF w1.loc.subrects > 0 THEN w1 ELSE extendedClipboardCapsDone(w1)

\* _handleServerCutText: the chunks of the formats, taken one after the
\* other from what the stream inflates to; the chunk of the format Text
RECURSIVE chunks(_, _, _, _)
chunks(out, formats, i, textData) ==
    IF i = 16 THEN [ok |-> TRUE, has |-> textData.has, data |-> textData.data]
    ELSE IF i \notin formatBits(formats) THEN chunks(out, formats, i + 1, textData)
    ELSE IF Len(out) < 4 \/ out[1] >= 128
                 \/ Len(out) - 4 < shift32(SubSeq(out, 1, 4))
    THEN [ok |-> FALSE, has |-> FALSE, data |-> << >>]
    ELSE LET size == shift32(SubSeq(out, 1, 4))
             chunk == SubSeq(out, 5, 4 + size)
         IN  chunks(SubSeq(out, 5 + size, Len(out)), formats, i + 1,
                    IF 2 ^ i = extendedClipboardFormatText
                    THEN [has |-> TRUE, data |-> chunk] ELSE textData)

\* _handleServerCutText: Provide
serverCutTextProvide(w) ==
    LET zlibStream == rQpeekBytes(w, w.loc.length)
        w1 == rQskipBytes(w, w.loc.length)
        r == inflateBytes(<< >>, zlibStream, << >>)
        c == chunks(r.out, w.loc.flags, 0, [has |-> FALSE, data |-> << >>])
        d == decodeUTF8(c.data)
        stripped == IF d.text # << >> /\ d.text[Len(d.text)] = 0
                    THEN SubSeq(d.text, 1, Len(d.text) - 1) ELSE d.text
    IN  IF ~r.ok \/ ~c.ok THEN throw(w1)
        ELSE IF ~c.has THEN loopTop(w1)
        ELSE IF ~d.ok THEN throw(w1)
        ELSE loopTop(dispatchEvent(
                 w1, Ev("clipboard", replaceCRLF(stripped), "")))

\* -------------------------------------------------------------- ServerFence
MsgClientFence(flags, payload) == Msg("ClientFence", flags, payload)

\* _handleServerFenceMsg: padding, flags, length
handleServerFenceMsg(w) ==
    LET b == rQpeekBytes(w, 8)
        length == IF b[8] > 64 THEN 64 ELSE b[8]
    IN  [log(rQskipBytes(w, 8),
             Entry("recv", "ServerFence", << SubSeq(b, 4, 7), b[8] >>,
                   w.rQi + 8))
            EXCEPT !.pc = "fencePayload", !.loc.data = SubSeq(b, 4, 7),
                   !.loc.length = length]

\* _handleServerFenceMsg: the payload and the answer
serverFencePayload(w) ==
    LET payload == rQpeekBytes(w, w.loc.length)
        w1 == [rQskipBytes(w, w.loc.length) EXCEPT !.supportsFence = TRUE]
    IN  IF w.loc.data[1] < 128 THEN throw(w1)
        ELSE loopTop(sockFlush(
                 w1, MsgClientFence(w.loc.data[4] % 4, payload)))

\* _normalMsg, case 150, that notes the support and enables nothing
endOfContinuousUpdates_noEnable(w) ==
    loopTop(updateContinuousUpdates(
        [w EXCEPT !.supportsContinuousUpdates = TRUE,
                  !.enabledContinuousUpdates = FALSE]))

\* _normalMsg, case 150: EndOfContinuousUpdates
endOfContinuousUpdates(w) ==
    LET first == ~w.supportsContinuousUpdates
        w2 == [w EXCEPT !.supportsContinuousUpdates = TRUE,
                        !.enabledContinuousUpdates = first]
    IN  loopTop(updateContinuousUpdates(w2))

\* _normalMsg: the message type
normalMsgType(w) ==
    LET msgType == w.rQbuf[1]
        w1 == rQskipBytes(w, 1)
    IN  CASE msgType = 0 -> [w1 EXCEPT !.pc = "fbuHeader"]
          [] msgType = 2 -> loopTop(dispatchEvent(w1, Ev("bell", "", "")))
          [] msgType = 3 -> [w1 EXCEPT !.pc = "cutText"]
          [] msgType = 248 -> [w1 EXCEPT !.pc = "fence"]
          [] msgType = 150 -> endOfContinuousUpdates(w1)
          [] OTHER -> throw(w1)

\* the positions of the driver in the normal loop at which it awaits bytes
RREPCs == {"rre", "rreSub"}
HextilePCs ==
    {"hextile", "hextileRaw", "hextileColours", "hextileCount", "hextileSub"}
TightPCs ==
    {"tight", "tightFill", "tightFilter", "tightPalette", "tightPaletteData",
     "tightRaw", "tightLen", "tightData"}
JPEGPCs == {"jpegMarker", "jpegType", "jpegLength", "jpegData", "jpegScan"}
CutTextPCs ==
    {"cutText", "cutTextStd", "cutTextFlags", "cutTextCaps", "cutTextProvide"}
FencePCs == {"fence", "fencePayload"}
BytePCs ==
    {"msgType", "fbuHeader", "rectHeader", "raw"}
        \cup RREPCs \cup HextilePCs \cup TightPCs \cup JPEGPCs
        \cup CutTextPCs \cup FencePCs

\* the number of bytes the read the driver awaits asks for
Demand(w) ==
    CASE w.pc = "msgType" -> 1
      [] w.pc = "fbuHeader" -> 3
      [] w.pc = "rectHeader" -> 12
      [] w.pc = "rre" -> 8
      [] w.pc = "rreSub" -> 12
      [] w.pc \in {"hextile", "hextileCount", "tight", "tightFilter",
                   "tightPalette", "tightLen", "jpegMarker", "jpegType"} -> 1
      [] w.pc = "jpegLength" -> 2
      [] w.pc = "cutText" -> 7
      [] w.pc \in {"cutTextFlags", "cutTextCaps"} -> 4
      [] w.pc = "fence" -> 8
      [] w.pc \in {"jpegData", "jpegScan"} -> w.loc.length - 2 + w.loc.extra
      [] w.pc = "tightFill" -> 3
      [] OTHER -> w.loc.length

\* The driver can continue.
ByteRunnable ==
    \/ pc \in BytePCs /\ Len(rQbuf) >= Demand(World)
    \/ pc = "fbuFlush" /\ ~displayPending

\* transport: a chunk arrives.  It holds one byte, or the bytes that the
\* pending read still lacks, or all that the server has sent.
Deliver ==
    /\ ~ByteRunnable
    /\ pc \in BytePCs \cup {"fbuFlush"}
    /\ readyState = "open"
    /\ wire # << >>
    /\ \E n \in {1, Demand(World) - Len(rQbuf), Len(wire)} :
           /\ n \in 1..Len(wire)
           /\ Commit([World EXCEPT !.wire = SubSeq(@, n + 1, Len(@)),
                                   !.rQbuf = @ \o SubSeq(wire, 1, n)])

\* renderer: the render queue has drained
RenderQueueDrained ==
    /\ ~ByteRunnable
    /\ displayPending
    /\ Commit([World EXCEPT !.displayPending = FALSE])

ReadMsgType ==
    /\ pc = "msgType" /\ Len(rQbuf) >= Demand(World)
    /\ Commit(normalMsgType(World))

ReadFramebufferUpdateHeader ==
    /\ pc = "fbuHeader" /\ Len(rQbuf) >= Demand(World)
    /\ Commit(framebufferUpdateHeader(World))

\* driver: the renderer's flush() has completed
FramebufferUpdateFlush ==
    /\ pc = "fbuFlush" /\ ~displayPending
    /\ Commit(framebufferUpdateLoop(World))

ReadRect ==
    /\ pc = "rectHeader" /\ Len(rQbuf) >= Demand(World)
    /\ \E queued \in BOOLEAN : Commit(framebufferUpdateRect(World, queued))

DecodeRaw ==
    /\ pc = "raw" /\ Len(rQbuf) >= Demand(World)
    /\ \E queued \in BOOLEAN : Commit(decodeRectRawData(World, queued))

DecodeRRE ==
    /\ pc \in RREPCs /\ Len(rQbuf) >= Demand(World)
    /\ \E queued \in BOOLEAN :
           Commit(IF pc = "rre" THEN decodeRectRREHeader(World, queued)
                  ELSE decodeRectRRESubrect(World, queued))

DecodeHextile ==
    /\ pc \in HextilePCs /\ Len(rQbuf) >= Demand(World)
    /\ \E queued \in BOOLEAN :
           Commit(CASE pc = "hextile" -> decodeRectHextileTile(World, queued)
                    [] pc = "hextileRaw" -> decodeRectHextileRaw(World, queued)
                    [] pc = "hextileColours" ->
                           decodeRectHextileColours(World, queued)
                    [] pc = "hextileCount" ->
                           decodeRectHextileCount(World, queued)
                    [] pc = "hextileSub" ->
                           decodeRectHextileSubrect(World, queued))

DecodeTight ==
    /\ pc \in TightPCs /\ Len(rQbuf) >= Demand(World)
    /\ \E queued \in BOOLEAN :
           Commit(CASE pc = "tight" -> decodeRectTightCtl(World)
                    [] pc = "tightFill" -> tightFillRect(World, queued)
                    [] pc = "tightFilter" -> basicRectFilter(World)
                    [] pc = "tightPalette" -> paletteFilterColors(World)
                    [] pc = "tightPaletteData" -> paletteFilterPalette(World)
                    [] pc = "tightRaw" -> tightRawData(World, queued)
                    [] pc = "tightLen" -> readDataLength(World)
                    [] pc = "tightData" -> readDataBytes(World, queued))

DecodeJPEG ==
    /\ pc \in JPEGPCs /\ Len(rQbuf) >= Demand(World)
    /\ \E queued \in BOOLEAN :
           Commit(CASE pc = "jpegMarker" -> readSegmentMarker(World)
                    [] pc = "jpegType" -> readSegmentType(World, queued)
                    [] pc = "jpegLength" -> readSegmentLength(World)
                    [] pc = "jpegData" -> readSegmentData(World, queued)
                    [] pc = "jpegScan" -> readSegmentScan(World, queued))

HandleServerCutText ==
    /\ pc \in CutTextPCs /\ Len(rQbuf) >= Demand(World)
    /\ Commit(CASE pc = "cutText" -> handleServerCutText(World)
                [] pc = "cutTextStd" -> serverCutTextStandard(World)
                [] pc = "cutTextFlags" -> serverCutTextFlags(World)
                [] pc = "cutTextCaps" -> serverCutTextCaps(World)
                [] pc = "cutTextProvide" -> serverCutTextProvide(World))

HandleServerFence ==
    /\ pc \in FencePCs /\ Len(rQbuf) >= Demand(World)
    /\ Commit(IF pc = "fence" THEN handleServerFenceMsg(World)
              ELSE serverFencePayload(World))

\* ------------------------------------------------------------ the server
\* the lengths of the payloads of the fences the server sends
FenceLengths == {0, 1, 64, 65}
\* What the server sends over the connection is chosen when the connection
\* begins.  The rectangles of a script are numbered: rectangle k of the
\* script has x = k, and y is the number of its FramebufferUpdate.
SeqsUpTo(S, n) == UNION {[1..k -> S] : k \in 0..n}

RectHeader(x, y, width, height, encoding) ==
    U16(x) \o U16(y) \o U16(width) \o U16(height)
        \o S32(encoding)

JPEGKinds == {"JPEG", "JPEGBare", "JPEGHuffman", "JPEGQuant", "JPEGNoFrame"}

RectBytes(kind, x, y) ==
    CASE kind = "Raw" ->
             RectHeader(x, y, 1, 1, encodingRaw) \o << x, y, 7, 0 >>
      [] kind = "CopyRect" ->
             RectHeader(x, y, 1, 1, encodingCopyRect) \o U16(0) \o U16(0)
      [] kind = "LastRect" ->
             RectHeader(x, y, 0, 0, pseudoEncodingLastRect)
      \* rectangles without pixels
      [] kind = "Raw0" -> RectHeader(x, y, 0, 2, encodingRaw)
      [] kind = "CopyRect0" ->
             RectHeader(x, y, 2, 0, encodingCopyRect) \o U16(0) \o U16(0)
      [] kind = "RRE0" ->
             RectHeader(x, y, 0, 2, encodingRRE) \o U32(0) \o << 1, 2, 3, 0 >>
      [] kind = "Hextile0" -> RectHeader(x, y, 2, 0, encodingHextile)
      [] kind = "TightCopy0" -> RectHeader(x, y, 0, 2, encodingTight) \o << 0 >>
      [] kind = "TightFilter0" ->
             RectHeader(x, y, 2, 0, encodingTight) \o << 64, 0 >>
      [] kind = "TightPalette0" ->
             RectHeader(x, y, 0, 2, encodingTight)
                 \o << 64, 1, 1, 1, 2, 3, 4, 5, 6 >>
      \* RRE: a background and one subrectangle
      [] kind = "RRE" ->
             RectHeader(x, y, 2, 2, encodingRRE) \o U32(1) \o << 1, 2, 3, 0 >>
                 \o << 4, 5, 6, 0 >> \o U16(1) \o U16(0) \o U16(1) \o U16(2)
      \* RRE: a background and two subrectangles
      [] kind = "RRE2" ->
             RectHeader(x, y, 2, 2, encodingRRE) \o U32(2) \o << 1, 2, 3, 0 >>
                 \o << 4, 5, 6, 0 >> \o U16(1) \o U16(0) \o U16(1) \o U16(2)
                 \o << 7, 8, 9, 0 >> \o U16(0) \o U16(1) \o U16(1) \o U16(1)
      \* Hextile: a raw tile; a tile with a background and a coloured
      \* subrectangle; a tile without anything
      [] kind = "HextileRaw" ->
             RectHeader(x, y, 1, 1, encodingHextile) \o << 1, 7, 8, 9, 0 >>
      [] kind = "HextileSub" ->
             RectHeader(x, y, 2, 1, encodingHextile)
                 \o << 26, 1, 2, 3, 0, 1, 4, 5, 6, 0, 16, 0 >>
      [] kind = "HextileBlank" ->
             RectHeader(x, y, 1, 1, encodingHextile) \o << 0 >>
      \* Hextile: a tile of 2 x 2 pixels with a background and a coloured
      \* subrectangle at (1, 0) that is 2 pixels wide
      [] kind = "HextileSubWide" ->
             RectHeader(x, y, 2, 2, encodingHextile)
                 \o << 26, 1, 2, 3, 0, 1, 4, 5, 6, 0, 16, 16 >>
      \* Hextile, tiles of one row of pixels: a raw tile and two tiles
      \* without anything; a tile with a background and one without
      \* anything; a tile with both colours, one with a subrectangle of
      \* the foreground, one with another background, one with a
      \* subrectangle again; a tile with a subrectangle and no colour
      [] kind = "HextileRawBlank" ->
             RectHeader(x, y, 33, 1, encodingHextile)
                 \o << 1 >> \o [i \in 1..64 |-> i] \o << 0, 0 >>
      [] kind = "HextileBgBlank" ->
             RectHeader(x, y, 17, 1, encodingHextile)
                 \o << 2, 1, 2, 3, 0, 0 >>
      [] kind = "HextileColours" ->
             RectHeader(x, y, 49, 1, encodingHextile)
                 \o << 6, 1, 2, 3, 0, 4, 5, 6, 0 >> \o << 8, 1, 16, 0 >>
                 \o << 2, 7, 8, 9, 0 >> \o << 8, 1, 0, 0 >>
      [] kind = "HextileNoColours" ->
             RectHeader(x, y, 1, 1, encodingHextile) \o << 8, 1, 0, 0 >>
      \* Tight: fill; one pixel; 2 x 2 pixels through stream 1, after a
      \* reset of the streams 0 and 1 and without; JPEG; two pixels of a
      \* palette of two colours
      [] kind = "TightFill" ->
             RectHeader(x, y, 1, 1, encodingTight) \o << 128, 1, 2, 3 >>
      [] kind = "TightCopy" ->
             RectHeader(x, y, 1, 1, encodingTight) \o << 0, 1, 2, 3 >>
      [] kind = "TightZlibReset" ->
             RectHeader(x, y, 2, 2, encodingTight)
                 \o << 19, 12, 1, 2, 3, 130, 130, 130, 130, 130, 130, 130,
                       130, 130 >>
      [] kind = "TightZlib" ->
             RectHeader(x, y, 2, 2, encodingTight)
                 \o << 16, 12, 130, 130, 130, 130, 130, 130, 130, 130, 130,
                       130, 130, 130 >>
      [] kind = "TightJpeg" ->
             RectHeader(x, y, 1, 1, encodingTight) \o << 148, 2, 9, 9 >>
      [] kind = "TightMono" ->
             RectHeader(x, y, 2, 1, encodingTight)
                 \o << 64, 1, 1, 1, 2, 3, 4, 5, 6, 64 >>
      \* Tight: two pixels of a palette of one colour and of three colours,
      \* an index a byte; 4 x 3 pixels of a palette of three colours
      \* through stream 0
      [] kind = "TightPalette1" ->
             RectHeader(x, y, 2, 1, encodingTight)
                 \o << 64, 1, 0, 1, 2, 3, 0, 0 >>
      [] kind = "TightPalette3" ->
             RectHeader(x, y, 2, 1, encodingTight)
                 \o << 64, 1, 2, 1, 2, 3, 4, 5, 6, 7, 8, 9, 2, 1 >>
      [] kind = "TightPaletteZlib" ->
             RectHeader(x, y, 4, 3, encodingTight)
                 \o << 64, 1, 2, 1, 2, 3, 4, 5, 6, 7, 8, 9 >>
                 \o << 12, 1, 2, 1, 2, 1, 2, 2, 1, 2, 1, 2, 1 >>
      \* TightPNG: an image, with a reset of stream 3; basic compression
      [] kind = "TightPNG" ->
             RectHeader(x, y, 1, 1, encodingTightPNG) \o << 168, 1, 9 >>
      [] kind = "TightPNGBasic" ->
             RectHeader(x, y, 1, 1, encodingTightPNG) \o << 0, 1, 2, 3 >>
      \* JPEG: an image with its tables, without tables, with Huffman
      \* tables only, with quantization tables only, without frame header;
      \* the tables of rectangle x hold x
      [] kind \in JPEGKinds ->
             RectHeader(x, y, 1, 1, encodingJPEG) \o << 255, 216 >>
                 \o (IF kind \in {"JPEG", "JPEGQuant"}
                     THEN << 255, 219, 0, 3, x >> ELSE << >>)
                 \o (IF kind = "JPEGNoFrame" THEN << >>
                     ELSE << 255, 192, 0, 2 >>)
                 \o (IF kind \in {"JPEG", "JPEGHuffman"}
                     THEN << 255, 196, 0, 3, 16 + x >> ELSE << >>)
                 \o << 255, 218, 0, 2, 5, 255, 217 >>

\* a FramebufferUpdate message that announces u.n rectangles
UpdateBytes(u, y, x) ==
    << 0, 0 >> \o U16(u.n)
        \o Flatten([i \in 1..Len(u.kinds) |-> RectBytes(u.kinds[i], x + i, y)])

RECURSIVE ScriptBytes(_, _, _)
ScriptBytes(us, y, x) ==
    IF us = << >> THEN << >>
    ELSE UpdateBytes(Head(us), y, x)
             \o ScriptBytes(Tail(us), y + 1, x + Len(Head(us).kinds))

RECURSIVE TotalRects(_)
TotalRects(us) ==
    IF us = << >> THEN 0 ELSE Len(Head(us).kinds) + TotalRects(Tail(us))

\* the updates with rectangles of the kinds K: the announced number of
\* rectangles, or one rectangle less and a LastRect
Updates(K) ==
    LET kss == SeqsUpTo(K, MaxWireRects)
    IN  {[n |-> Len(ks), kinds |-> ks] : ks \in kss}
            \cup {[n |-> Len(ks) + 1, kinds |-> ks \o << "LastRect" >>] :
                      ks \in kss}

UpdateScripts ==
    {ScriptBytes(us, 1, 0) :
         us \in {s \in SeqsUpTo(Updates({"Raw", "CopyRect"}), MaxUpdates) :
                     s # << >> /\ TotalRects(s) <= MaxWireRects}}

\* one FramebufferUpdate with rectangles of the kinds K
OneUpdate(K) ==
    {ScriptBytes(<< [n |-> Len(ks), kinds |-> ks] >>, 1, 0) :
         ks \in SeqsUpTo(K, MaxWireRects) \ { << >> }}

ZeroSizeKinds ==
    {"Raw0", "CopyRect0", "RRE0", "Hextile0", "TightCopy0", "TightFilter0",
     "TightPalette0"}
TileKinds ==
    {"RRE", "RRE2", "HextileRaw", "HextileSub", "HextileSubWide",
     "HextileBlank"}
TilesKinds ==
    {"HextileRawBlank", "HextileBgBlank", "HextileColours",
     "HextileNoColours", "HextileBlank"}
PaletteKinds ==
    {"TightMono", "TightPalette1", "TightPalette3", "TightPaletteZlib"}
TightKinds ==
    {"TightFill", "TightCopy", "TightZlibReset", "TightZlib", "TightJpeg",
     "TightMono", "TightPNG", "TightPNGBasic"}

\* Deflator.deflate, the counterpart of the Inflator
deflate(data) ==
    Flatten([i \in 1..Len(data) |->
                IF data[i] = 0 \/ data[i] >= 128 THEN << 0, data[i] >>
                ELSE << data[i] >>])

\* a ServerCutText message: the length as the server sends it, what follows
CutTextBytes(length, body) == << 3, 0, 0, 0 >> \o S32(length) \o body

\* an extended message: the flags, then the rest
ExtendedCutTextBytes(actions, formats, rest) ==
    CutTextBytes(0 - (4 + Len(rest)),
                 << actions \div 16777216, 0, 0, formats >> \o rest)

\* the texts, as UTF-8 with line ends of all kinds, that the server provides
ProvideTexts ==
    SeqsUpTo({13, 10, 97}, MaxText)
        \cup { << 195, 169, 13 >>, << 13, 10, 13, 10 >>, << 97, 0, 0 >> }

\* Provide: the size of the text and the text, with its NUL, deflated
ProvideBytes(text) ==
    ExtendedCutTextBytes(extendedClipboardActionProvide,
                         extendedClipboardFormatText,
                         deflate(U32(Len(text) + 1) \o text \o << 0 >>))

CutTextMessage(kind) ==
    CASE kind = "Standard" -> CutTextBytes(2, << 104, 105 >>)
      [] kind = "Caps" -> ExtendedCutTextBytes(clientActions, 1, U32(0))
      [] kind = "Request" ->
             ExtendedCutTextBytes(extendedClipboardActionRequest, 1, << >>)
      [] kind = "Peek" ->
             ExtendedCutTextBytes(extendedClipboardActionPeek, 0, << >>)
      [] kind = "Notify" ->
             ExtendedCutTextBytes(extendedClipboardActionNotify, 1, << >>)
      [] kind = "Provide" -> ProvideBytes(<< 97 >>)
      \* a format that is not Text
      [] kind = "ProvideOther" ->
             ExtendedCutTextBytes(extendedClipboardActionProvide, 2,
                                  deflate(U32(1) \o << 65 >>))

CutTextKinds ==
    {"Standard", "Caps", "Request", "Peek", "Notify", "Provide",
     "ProvideOther"}

\* ServerCutText messages, and a Bell after them
CutTextScripts ==
    {Flatten([i \in 1..Len(ks) |-> CutTextMessage(ks[i])]) \o << 2 >> :
         ks \in SeqsUpTo(CutTextKinds, MaxCutTexts) \ { << >> }}
        \cup {ProvideBytes(text) \o << 2 >> : text \in ProvideTexts}

\* a ServerFence message
FenceBytes(flags, length) ==
    << 248, 0, 0, 0 >> \o flags \o << length >> \o [i \in 1..length |-> i]

\* a fence request with all flags and a payload of some length, or a fence
\* that is no request, and a Bell after it
FenceScripts ==
    {FenceBytes(<< 128, 0, 0, 7 >>, n) \o << 2 >> : n \in FenceLengths}
        \cup {FenceBytes(<< 0, 0, 0, 1 >>, 1) \o << 2 >>}

\* an EndOfContinuousUpdates message, or a FramebufferUpdate of one Raw
\* rectangle
ContinuousMessage(kind, y) ==
    IF kind = "End" THEN << 150 >>
    ELSE UpdateBytes([n |-> 1, kinds |-> << "Raw" >>], y, 0)

ContinuousScripts ==
    {Flatten([i \in 1..Len(ks) |-> ContinuousMessage(ks[i], i)]) :
         ks \in SeqsUpTo({"End", "Update"}, MaxContinuous) \ { << >> }}

ServerScripts ==
    UpdateScripts \cup OneUpdate(ZeroSizeKinds) \cup OneUpdate(TileKinds)
        \cup OneUpdate(TilesKinds) \cup OneUpdate(PaletteKinds)
        \cup OneUpdate(TightKinds) \cup OneUpdate(JPEGKinds)
        \cup CutTextScripts \cup FenceScripts \cup ContinuousScripts

\* the clipboard after the server has announced all capabilities and the
\* user has pasted a text
PastedClipboard ==
    [ hasText |-> TRUE, text |-> << 97, 13 >>,
      actions |-> actionBits(clientActions \div 16777216), formats |-> {0} ]

\* The client is connected: the state after a handshake of version 3.8
\* without authentication, with a framebuffer of 4 x 4 pixels.  The trace
\* begins with the connection.
FrameInit ==
    /\ rfbConnectionState = "connected"
    /\ rfbInitState = "ServerInitialisation"
    /\ rfbVersion = 38
    /\ rfbAuthScheme = securityTypeNone
    /\ rfbCleanDisconnect = TRUE
    /\ rfbTightVNC = FALSE
    /\ securityStatus = 0
    /\ disconnTimer = 0
    /\ credentialsResolve = FALSE
    /\ approveServerResolve = FALSE
    /\ rfbCredentials = FALSE
    /\ supportsContinuousUpdates \in BOOLEAN
    /\ enabledContinuousUpdates = supportsContinuousUpdates
    /\ fbWidth = 4
    /\ fbHeight = 4
    /\ readyState = "open"
    /\ handlers = {"open", "close", "error"}
    /\ rQ = 0
    /\ received = 0
    /\ syncClose = FALSE
    /\ timers = << >>
    /\ displayPending = FALSE
    /\ pc = "msgType"
    /\ types = << >>
    /\ initSize = << >>
    /\ rects = 0
    /\ trace = << StateChange("connected"), EvConnect >>
    /\ disconnectCalled = {}
    /\ wire \in ServerScripts
    /\ rQbuf = << >>
    /\ rQi = 0
    /\ loc = NoLocals
    /\ decoders = NewDecoders
    /\ viewOnly \in (IF wire \in CutTextScripts THEN BOOLEAN ELSE {FALSE})
    /\ clipboard \in (IF wire \in CutTextScripts
                      THEN {NoClipboard, PastedClipboard}
                      ELSE {NoClipboard})
    /\ supportsFence = FALSE
    /\ sock = NewSock
    /\ input = NewInput
    /\ ciphers = NewCiphers

FrameNext ==
    \/ Deliver
    \/ RenderQueueDrained
    \/ ReadMsgType
    \/ ReadFramebufferUpdateHeader
    \/ FramebufferUpdateFlush
    \/ ReadRect
    \/ DecodeRaw
    \/ DecodeRRE
    \/ DecodeHextile
    \/ DecodeTight
    \/ DecodeJPEG
    \/ HandleServerCutText
    \/ HandleServerFence

FrameSpec == FrameInit /\ [][FrameNext]_vars

\* --------------------------------------------------- keyboard and mouse
\* b | 0x80
or128(b) == IF (b \div 128) % 2 = 1 THEN b ELSE b + 128

\* a keycode of the upper byte 0xe0 translated whatever its lower byte
getRFBkeycode_every(keycode) ==
    IF keycode \div 256 = 224 THEN or128(keycode % 256) ELSE keycode

\* RFB.messages.QEMUExtendedKeyEvent: getRFBkeycode
getRFBkeycode(keycode) ==
    LET upperByte == keycode \div 256
        lowerByte == keycode % 256
    IN  IF upperByte = 224 /\ lowerByte < 127 THEN or128(lowerByte)
        ELSE keycode

\* RFB.messages: the messages of the keyboard and the mouse
MsgKeyEvent(keysym, down) == Msg("KeyEvent", down, keysym)
MsgQEMUExtendedKeyEvent(keysym, down, keycode) ==
    Msg("QEMUExtendedKeyEvent", << down, keysym >>, getRFBkeycode(keycode))
MsgPointerEvent(x, y, mask) == Msg("PointerEvent", << x, y >>, mask)

\* sendKey(keysym, code, down) with down given; scancode is what XtScancode
\* has for the code, 0 when it has nothing, and a keysym of 0 is none
sendKeyDown(w, keysym, scancode, down) ==
    IF w.rfbConnectionState # "connected" \/ w.viewOnly THEN w
    ELSE IF w.input.qemuExtKeyEventSupported /\ scancode # 0
    THEN sockFlush(w, MsgQEMUExtendedKeyEvent(keysym, IF down THEN 1 ELSE 0,
                                              scancode))
    ELSE IF keysym = 0 THEN w
    ELSE sockFlush(w, MsgKeyEvent(keysym, IF down THEN 1 ELSE 0))

\* sendKey(keysym, code, down); down is "true", "false" or "undefined"
sendKey(w, keysym, scancode, down) ==
    IF w.rfbConnectionState # "connected" \/ w.viewOnly THEN w
    ELSE IF down = "undefined"
    THEN sendKeyDown(sendKeyDown(w, keysym, scancode, TRUE),
                     keysym, scancode, FALSE)
    ELSE sendKeyDown(w, keysym, scancode, down = "true")

\* set viewOnly; the keyboard grabbed or let go has no part in the protocol
setViewOnly(w, v) == [w EXCEPT !.viewOnly = v]

\* a mouse that does not look at viewOnly
sendMouse_viewOnly(w, x, y, mask) ==
    IF w.rfbConnectionState # "connected" THEN w
    ELSE sockFlush(w, MsgPointerEvent(x, y, mask))

\* _sendMouse
sendMouse(w, x, y, mask) ==
    IF w.rfbConnectionState # "connected" THEN w
    ELSE IF w.viewOnly THEN w
    ELSE sockFlush(w, MsgPointerEvent(x, y, mask))

\* _handleMouseButton of the button of mask 1, dragViewport being off
handleMouseButton(w, x, y, down) ==
    LET w1 == IF w.input.mouseMoveTimer # "null"
              THEN sendMouse([w EXCEPT !.input.mouseMoveTimer = "null"],
                             x, y, w.input.mouseButtonMask)
              ELSE w
        w2 == [w1 EXCEPT !.input.mouseButtonMask = IF down THEN 1 ELSE 0]
    IN  sendMouse(w2, x, y, w2.input.mouseButtonMask)

\* _handleMouseMove, the viewport not being dragged; tooSoon: fewer than
\* MOUSE_MOVE_DELAY ms have passed since the last move
handleMouseMove(w, x, y, tooSoon) ==
    LET w1 == [w EXCEPT !.input.mousePos = << x, y >>]
    IN  IF w1.input.mouseMoveTimer # "null" THEN w1
        ELSE IF ~tooSoon
        THEN [sendMouse(w1, x, y, w1.input.mouseButtonMask) EXCEPT
                 !.input.mouseLastMoveTime = 1]
        ELSE [w1 EXCEPT !.input.mouseMoveTimer = "pending"]

\* _handleDelayedMouseMove
handleDelayedMouseMove(w) ==
    LET w1 == [w EXCEPT !.input.mouseMoveTimer = "null"]
    IN  [sendMouse(w1, w1.input.mousePos[1], w1.input.mousePos[2],
                   w1.input.mouseButtonMask) EXCEPT
            !.input.mouseLastMoveTime = 1]

\* one more event of the keyboard, the mouse or the application
Counted(w) == [w EXCEPT !.input.events = @ + 1]

\* the scancodes of XtScancode the keys of the model have: none, KeyA,
\* ControlRight, and a code of the upper byte 0xe0 and the lower byte 0x7f
Scancodes == {0, 30, 57373, 57471}
Keysyms == {0, 97}
\* a key pressed, or pressed and released in one call
Downs == {"true", "undefined"}

\* application or keyboard: sendKey
SendKey ==
    /\ ~Runnable
    /\ input.events < MaxInputs
    /\ \E keysym \in Keysyms, scancode \in Scancodes,
          down \in Downs :
           Commit(sendKey(Counted(World), keysym, scancode, down))

\* application: viewOnly set or reset
SetViewOnly ==
    /\ ~Runnable
    /\ input.events < MaxInputs
    /\ Commit(setViewOnly(Counted(World), ~viewOnly))

\* mouse: a button pressed or released over the canvas
MouseButton ==
    /\ ~Runnable
    /\ input.listening
    /\ input.events < MaxInputs
    /\ \E down \in BOOLEAN :
           Commit(handleMouseButton(Counted(World), 2, 1, down))

\* mouse: moved over the canvas
MouseMove ==
    /\ ~Runnable
    /\ input.listening
    /\ input.events < MaxInputs
    /\ \E tooSoon \in (IF input.mouseLastMoveTime = 0 THEN {FALSE}
                         ELSE BOOLEAN) :
           Commit(handleMouseMove(Counted(World), 1 + input.events, 3,
                                  tooSoon))

\* the timer of the waiting mouse move expires
DelayedMouseMove ==
    /\ ~Runnable
    /\ input.mouseMoveTimer = "pending"
    /\ Commit(handleDelayedMouseMove(World))

\* a connected client whose server may have announced QEMUExtendedKeyEvent
InputInit ==
    /\ rfbConnectionState = "connected"
    /\ rfbInitState = "ServerInitialisation"
    /\ rfbVersion = 38
    /\ rfbAuthScheme = securityTypeNone
    /\ rfbCleanDisconnect = TRUE
    /\ rfbTightVNC = FALSE
    /\ securityStatus = 0
    /\ disconnTimer = 0
    /\ credentialsResolve = FALSE
    /\ approveServerResolve = FALSE
    /\ rfbCredentials = FALSE
    /\ supportsContinuousUpdates = FALSE
    /\ enabledContinuousUpdates = FALSE
    /\ fbWidth = 4
    /\ fbHeight = 4
    /\ readyState = "open"
    /\ handlers = {"open", "close", "error"}
    /\ rQ = 0
    /\ received = 0
    /\ syncClose \in BOOLEAN
    /\ timers = << >>
    /\ displayPending = FALSE
    /\ pc = "NormalMsg"
    /\ types = << >>
    /\ initSize = << >>
    /\ rects = 0
    /\ trace = << StateChange("connected"), EvConnect >>
    /\ disconnectCalled = {}
    /\ wire = << >>
    /\ rQbuf = << >>
    /\ rQi = 0
    /\ loc = NoLocals
    /\ decoders = NewDecoders
    /\ viewOnly \in BOOLEAN
    /\ clipboard = NoClipboard
    /\ supportsFence = FALSE
    /\ sock = NewSock
    /\ \E q \in BOOLEAN :
           input = [NewInput EXCEPT !.qemuExtKeyEventSupported = q]
    /\ ciphers = NewCiphers

InputNext ==
    \/ SendKey
    \/ SetViewOnly
    \/ MouseButton
    \/ MouseMove
    \/ DelayedMouseMove
    \/ Disconnect
    \/ TransportClose
    \/ DisconnectTimeout
    \/ MessageLoopCatch

InputSpec == InputInit /\ [][InputNext]_vars

\* ------------------------------------------------------- the RA2Cipher
\* a counter whose carry is lost
increment_noCarry(counter, i) == [counter EXCEPT ![1] = (@ + 1) % 256]

\* for (let i = 0; i < 16 && this._counter[i]++ === 255; i++);
\* from the byte i on; a Uint8Array keeps the low 8 bits
RECURSIVE increment(_, _)
increment(counter, i) ==
    IF i >= 16 THEN counter
    ELSE LET old == counter[i + 1]
             next == [counter EXCEPT ![i + 1] = (old + 1) % 256]
         IN  IF old = 255 THEN increment(next, i + 1) ELSE next

\* setKey
cipherSetKey(c) == [c EXCEPT !.cipher = "key"]

\* makeMessage of a message of the length len: the additional data is the
\* length, the nonce the counter, the result the length, the encrypted
\* message and the 16 bytes of the MAC
makeMessage(c, len) ==
    [c EXCEPT !.iv = c.counter, !.len = len + 2 + 16,
              !.counter = increment(c.counter, 0), !.ops = @ + 1]

\* receiveMessage of the length len: the result is the decrypted message
receiveMessage(c, len) ==
    [c EXCEPT !.iv = c.counter, !.len = len,
              !.counter = increment(c.counter, 0), !.ops = @ + 1]

\* counters a cipher has after many messages: bytes about to carry into
\* the next, into the last, and around to zero
CounterStarts ==
    { ZeroCounter,
      [i \in 1..16 |-> IF i = 1 THEN 254 ELSE 0],
      [i \in 1..16 |-> IF i <= 2 THEN 255 ELSE 0],
      [i \in 1..16 |-> IF i = 1 THEN 255 ELSE IF i = 2 THEN 7 ELSE 0],
      [i \in 1..16 |-> IF i <= 15 THEN 255 ELSE 0],
      [i \in 1..16 |-> IF i = 1 THEN 254 ELSE 255],
      [i \in 1..16 |-> 255] }

CipherSetKey ==
    \E d \in Directions :
        /\ ciphers[d].cipher = "null"
        /\ ciphers' = [ciphers EXCEPT ![d] = cipherSetKey(@)]
        /\ UNCHANGED << rfbConnectionState, rfbInitState, rfbVersion,
                        rfbAuthScheme, rfbCleanDisconnect, rfbTightVNC,
                        securityStatus, disconnTimer, credentialsResolve,
                        approveServerResolve, rfbCredentials,
                        supportsContinuousUpdates, enabledContinuousUpdates,
                        fbWidth, fbHeight, readyState, handlers, rQ, received,
                        syncClose, timers, displayPending, pc, types,
                        initSize, rects, trace, disconnectCalled, wire, rQbuf,
                        rQi, loc, decoders, viewOnly, clipboard,
                        supportsFence, sock, input >>

CipherMakeMessage ==
    \E d \in Directions, len \in {0, 32} :
        /\ ciphers[d].cipher = "key"
        /\ ciphers[d].ops < MaxOps
        /\ Commit([World EXCEPT !.ciphers[d] = makeMessage(@, len)])

CipherReceiveMessage ==
    \E d \in Directions, len \in {1, 32} :
        /\ ciphers[d].cipher = "key"
        /\ ciphers[d].ops < MaxOps
        /\ Commit([World EXCEPT !.ciphers[d] = receiveMessage(@, len)])

\* two ciphers, each with the counter of an earlier life
CipherInit ==
    /\ rfbConnectionState = "connecting"
    /\ rfbInitState = ""
    /\ rfbVersion = 0
    /\ rfbAuthScheme = -1
    /\ rfbCleanDisconnect = TRUE
    /\ rfbTightVNC = FALSE
    /\ securityStatus = 0
    /\ disconnTimer = 0
    /\ credentialsResolve = FALSE
    /\ approveServerResolve = FALSE
    /\ rfbCredentials = FALSE
    /\ supportsContinuousUpdates = FALSE
    /\ enabledContinuousUpdates = FALSE
    /\ fbWidth = 0
    /\ fbHeight = 0
    /\ readyState = "open"
    /\ handlers = {}
    /\ rQ = 0
    /\ received = 0
    /\ syncClose = FALSE
    /\ timers = << >>
    /\ displayPending = FALSE
    /\ pc = "none"
    /\ types = << >>
    /\ initSize = << >>
    /\ rects = 0
    /\ trace = << >>
    /\ disconnectCalled = {}
    /\ wire = << >>
    /\ rQbuf = << >>
    /\ rQi = 0
    /\ loc = NoLocals
    /\ decoders = NewDecoders
    /\ viewOnly = FALSE
    /\ clipboard = NoClipboard
    /\ supportsFence = FALSE
    /\ sock = NewSock
    /\ input = NewInput
    /\ \E c, s \in CounterStarts :
           ciphers = [d \in Directions |->
                         NewRA2Cipher(IF d = "client" THEN c ELSE s)]

CipherNext == CipherSetKey \/ CipherMakeMessage \/ CipherReceiveMessage

CipherSpec == CipherInit /\ [][CipherNext]_vars

\* ------------------------------------------------- the compact lengths
\* A connected client and a server that sends one FramebufferUpdate of one
\* Tight rectangle with a JPEG image of n bytes, of which it delivers the
\* first MaxPayload at most.  The trace starts with what the server has
\* made of n.
\* the compact length of n: groups of 7 bits, the least significant first,
\* bit 7 set in the first and the second byte when another byte follows
compactLen(n) ==
    IF n < 128 THEN << n >>
    ELSE IF n < 16384 THEN << 128 + (n % 128), n \div 128 >>
    ELSE << 128 + (n % 128), 128 + ((n \div 128) % 128), n \div 16384 >>

Lengths ==
    (0..MaxLength)
        \cup {2 ^ k - d : k \in 9..21, d \in 0..1}
        \cup {2 ^ 14 + 1, 2 ^ 14 + 127, 2 ^ 14 + 128, 2 ^ 21 - 128,
              2 ^ 21 - 129, 2 ^ 20 + 2 ^ 13 + 2 ^ 6}

LengthScript(n) ==
    << 0, 0 >> \o U16(1) \o RectHeader(1, 1, 1, 1, encodingTight)
        \o << 144 >> \o compactLen(n)
        \o [i \in 1..Min(n, MaxPayload) |-> 216 + i]

ServerLength(n) == Entry("server", "compactLen", n, compactLen(n))

LenInit ==
    /\ rfbConnectionState = "connected"
    /\ rfbInitState = "ServerInitialisation"
    /\ rfbVersion = 38
    /\ rfbAuthScheme = securityTypeNone
    /\ rfbCleanDisconnect = TRUE
    /\ rfbTightVNC = FALSE
    /\ securityStatus = 0
    /\ disconnTimer = 0
    /\ credentialsResolve = FALSE
    /\ approveServerResolve = FALSE
    /\ rfbCredentials = FALSE
    /\ supportsContinuousUpdates = FALSE
    /\ enabledContinuousUpdates = FALSE
    /\ fbWidth = 4
    /\ fbHeight = 4
    /\ readyState = "open"
    /\ handlers = {"open", "close", "error"}
    /\ rQ = 0
    /\ received = 0
    /\ syncClose = FALSE
    /\ timers = << >>
    /\ displayPending = FALSE
    /\ pc = "msgType"
    /\ types = << >>
    /\ initSize = << >>
    /\ rects = 0
    /\ disconnectCalled = {}
    /\ \E n \in Lengths :
           /\ wire = LengthScript(n)
           /\ trace = << ServerLength(n) >>
    /\ rQbuf = << >>
    /\ rQi = 0
    /\ loc = NoLocals
    /\ decoders = NewDecoders
    /\ viewOnly = FALSE
    /\ clipboard = NoClipboard
    /\ supportsFence = FALSE
    /\ sock = NewSock
    /\ input = NewInput
    /\ ciphers = NewCiphers

LenNext ==
    \/ Deliver
    \/ ReadMsgType
    \/ ReadFramebufferUpdateHeader
    \/ ReadRect
    \/ DecodeTight

LenSpec == LenInit /\ [][LenNext]_vars

\* ------------------------------------------------------ Websock by itself
\* The Websock object with a client that calls its reads, pushes and flush
\* in any order, and a transport that delivers chunks.  The trace holds the
\* calls, what they return, the chunks and the frames.
sQbufferSize == 10240

Call(op, a) == Entry("call", op, a, "")
Return(op, n, value) == Entry("return", op, n, value)
Reject(op, error) == Entry("reject", op, error, "")
Chunk(data) == Entry("chunk", "", data, "")
Frame(data) == Entry("frame", "", data, "")

\* the reads that leave the bytes in the queue
Peeks == {"rQpeek8", "rQpeekBytes"}

\* the number of bytes a read asks for
numOf(op, n) ==
    CASE op \in {"rQpeek8", "rQshift8"} -> 1
      [] op = "rQshift16" -> 2
      [] op = "rQshift32" -> 4
      [] OTHER -> n

\* what a read makes of the bytes b: a number, a string of the characters
\* with the codes b, an array of the bytes, or nothing
valueOf(op, b) ==
    CASE op \in {"rQpeek8", "rQshift8"} -> b[1]
      [] op = "rQshift16" -> shift16(b)
      [] op = "rQshift32" -> shift32(b)
      [] op = "rQshiftStr" -> [string |-> b]
      [] op \in {"rQshiftBytes", "rQpeekBytes"} -> [array |-> b]
      [] OTHER -> ""

\* a read with its bytes in the queue: it takes them from rQi on and moves
\* rQi behind them, a peek leaves rQi
rQtake(w, op, num) ==
    LET s == w.sock
        b == SubSeq(s.rQ, s.rQi + 1, s.rQi + num)
    IN  log([w EXCEPT !.sock.rQi = IF op \in Peeks THEN @ ELSE @ + num],
            Return(op, num, valueOf(op, b)))

\* a typed read: it returns at once when the bytes are there; otherwise it
\* becomes the pending demand, or fails when there is one
rQread(w, op, n) ==
    LET w1 == log(w, Call(op, numOf(op, n)))
        s == w.sock
    IN  IF s.rQlen - s.rQi >= numOf(op, n) THEN rQtake(w1, op, numOf(op, n))
        ELSE IF s.waiters # << >> THEN log(w1, Reject(op, "ConcurrentRead"))
        ELSE [w1 EXCEPT !.sock.waiters =
                            Append(@, [op |-> op, num |-> numOf(op, n)])]

\* _recvMessage with a new buffer that the unread bytes are not copied to
expandCompactRQ_noCopy(s, minFit) ==
    LET required == (s.rQlen - s.rQi + minFit) * 8
        size == IF s.rQbufferSize < required THEN required
                ELSE s.rQbufferSize
    IN  [s EXCEPT !.rQbufferSize = size,
                  !.rQ = [i \in 1..size |-> 0],
                  !.rQlen = s.rQlen - s.rQi,
                  !.rQi = 0]

\* _recvMessage: the unread bytes move to the start of the buffer, in a
\* buffer of eight times their number and that of the new bytes when the
\* buffer is shorter than that
expandCompactRQ(s, minFit) ==
    LET required == (s.rQlen - s.rQi + minFit) * 8
        size == IF s.rQbufferSize < required THEN required
                ELSE s.rQbufferSize
        old == IF s.rQbufferSize < required THEN [i \in 1..size |-> 0]
               ELSE s.rQ
    IN  [s EXCEPT !.rQbufferSize = size,
                  !.rQ = [i \in 1..size |->
                             IF i <= s.rQlen - s.rQi THEN s.rQ[s.rQi + i]
                             ELSE old[i]],
                  !.rQlen = s.rQlen - s.rQi,
                  !.rQi = 0]

\* _recvMessage that resolves the pending demand at every chunk
rQresolve_early(w) ==
    IF w.sock.waiters # << >>
    THEN LET d == Head(w.sock.waiters)
         IN  rQtake([w EXCEPT !.sock.waiters = Tail(@)], d.op, d.num)
    ELSE w

\* _recvMessage: the pending demand is resolved when its bytes are there
rQresolve(w) ==
    IF w.sock.waiters # << >>
           /\ w.sock.rQlen - w.sock.rQi >= Head(w.sock.waiters).num
    THEN LET d == Head(w.sock.waiters)
         IN  rQtake([w EXCEPT !.sock.waiters = Tail(@)], d.op, d.num)
    ELSE w

\* _recvMessage: the chunk goes behind the received bytes, after the queue
\* was reset when all of it is read, and compacted or enlarged when the
\* chunk does not fit behind rQlen
rQappend(s, data) ==
    LET s1 == IF s.rQlen = s.rQi THEN [s EXCEPT !.rQlen = 0, !.rQi = 0]
              ELSE s
        s2 == IF Len(data) > s1.rQbufferSize - s1.rQlen
              THEN expandCompactRQ(s1, Len(data)) ELSE s1
    IN  [s2 EXCEPT !.rQ = [i \in 1..Len(@) |->
                              IF i > s2.rQlen /\ i <= s2.rQlen + Len(data)
                              THEN data[i - s2.rQlen] ELSE @[i]],
                   !.rQlen = @ + Len(data)]

\* _recvMessage
recvMessage(w, data) ==
    rQresolve([log(w, Chunk(data)) EXCEPT !.sock = rQappend(w.sock, data)])

\* the transport closes: the pending demand fails
sockClosed(w) ==
    LET w1 == [w EXCEPT !.readyState = "closed"]
    IN  IF w.sock.waiters = << >> THEN w1
        ELSE log([w1 EXCEPT !.sock.waiters = << >>],
                 Reject(Head(w.sock.waiters).op, "ConnectionClosed"))

\* flush that sends what it is given in frames as long as one likes
flush_whole(w) ==
    log([w EXCEPT !.sock.sQ = << >>], Frame(w.sock.sQ))

\* flush: the buffered bytes go to the transport as one message
flush(w) ==
    IF Len(w.sock.sQ) > 0
    THEN log([w EXCEPT !.sock.sQ = << >>], Frame(w.sock.sQ))
    ELSE w

\* a push of bytes that fit into the send buffer: the buffer is flushed
\* first when they do not fit behind the bytes it holds
sQput(w, bytes) ==
    LET w1 == IF sQbufferSize - Len(w.sock.sQ) < Len(bytes) THEN flush(w)
              ELSE w
    IN  [w1 EXCEPT !.sock.sQ = @ \o bytes]

sQpush8(w, num) == sQput(log(w, Call("sQpush8", num)), << num % 256 >>)
sQpush16(w, num) == sQput(log(w, Call("sQpush16", num)), U16(num % 65536))
sQpush32(w, num) == sQput(log(w, Call("sQpush32", num)), U32(num))

\* a push of any number of bytes: the bytes beyond the capacity of the send
\* buffer go out in frames of that capacity, the rest is buffered
RECURSIVE sQsplit(_, _)
sQsplit(w, bytes) ==
    IF Len(bytes) <= sQbufferSize THEN sQput(w, bytes)
    ELSE sQsplit(flush(sQput(w, SubSeq(bytes, 1, sQbufferSize))),
                 SubSeq(bytes, sQbufferSize + 1, Len(bytes)))

sQpushBytes(w, bytes) ==
    sQsplit(log(w, Call("sQpushBytes", << bytes[1], Len(bytes) >>)), bytes)
\* the string str is the sequence of the codes of its characters
sQpushString(w, str) ==
    sQsplit(log(w, Call("sQpushString", << str[1], Len(str) >>)),
            [i \in 1..Len(str) |-> str[i] % 256])

\* ---------------------------------------------------------------- client
\* the calls made so far
Calls(ops) ==
    {i \in 1..Len(trace) : trace[i].io = "call" /\ trace[i].name \in ops}
Chunks == {i \in 1..Len(trace) : trace[i].io = "chunk"}
ReadOps ==
    {"rQpeek8", "rQshift8", "rQshift16", "rQshift32", "rQshiftStr",
     "rQshiftBytes", "rQpeekBytes", "rQskipBytes"}
PushOps == {"sQpush8", "sQpush16", "sQpush32", "sQpushString", "sQpushBytes"}
\* the reads the client calls
ReadCalls ==
    {<< op, 1 >> : op \in {"rQpeek8", "rQshift8", "rQshift16", "rQshift32"}}
        \cup {<< "rQshiftStr", 3 >>, << "rQshiftBytes", 8 >>,
              << "rQpeekBytes", 3 >>, << "rQskipBytes", 3 >>,
              << "rQskipBytes", 8 >>}
\* the lengths of the chunks and of the byte arrays and strings pushed
ChunkLengths == {1, MaxChunk}
PushLengths == {5, sQbufferSize - 1, sQbufferSize + 1}
\* the bytes that arrive are numbered from 1 on
Arrived == Flatten([i \in 1..Len(trace) |->
                       IF trace[i].io = "chunk" THEN trace[i].a ELSE << >>])
\* n bytes to push that begin with the byte k and count on from there
PushData(k, n) == [i \in 1..n |-> (k + i - 1) % 256]

SockRecvMessage ==
    /\ readyState = "open"
    /\ Cardinality(Chunks) < MaxChunks
    /\ \E n \in ChunkLengths :
           Commit(recvMessage(World, [i \in 1..n |-> Len(Arrived) + i]))

SockClosed ==
    /\ readyState = "open"
    /\ Commit(sockClosed(World))

SockRead ==
    /\ Cardinality(Calls(ReadOps)) < MaxReads
    /\ \E c \in ReadCalls : Commit(rQread(World, c[1], c[2]))

SockPush ==
    /\ Cardinality(Calls(PushOps \cup {"flush"})) < MaxPushes
    /\ LET k == 16 * (Cardinality(Calls(PushOps)) + 1)
       IN  \/ Commit(sQpush8(World, k))
           \/ Commit(sQpush16(World, k * 256 + k + 1))
           \/ Commit(sQpush32(World, ((k * 256 + k + 1) * 256 + k + 2) * 256
                                          + k + 3))
           \/ \E n \in PushLengths :
                  Commit(sQpushBytes(World, PushData(k, n)))
           \/ \E n \in {5, sQbufferSize + 1} :
                  Commit(sQpushString(World, PushData(k, n)))

SockFlush ==
    /\ Cardinality(Calls(PushOps \cup {"flush"})) < MaxPushes
    /\ Commit(flush(log(World, Call("flush", ""))))

\* A Websock that is attached to an open transport, and an RFB object that
\* does nothing.
SockInit ==
    /\ rfbConnectionState = "connecting"
    /\ rfbInitState = ""
    /\ rfbVersion = 0
    /\ rfbAuthScheme = -1
    /\ rfbCleanDisconnect = TRUE
    /\ rfbTightVNC = FALSE
    /\ securityStatus = 0
    /\ disconnTimer = 0
    /\ credentialsResolve = FALSE
    /\ approveServerResolve = FALSE
    /\ rfbCredentials = FALSE
    /\ supportsContinuousUpdates = FALSE
    /\ enabledContinuousUpdates = FALSE
    /\ fbWidth = 0
    /\ fbHeight = 0
    /\ readyState = "open"
    /\ handlers = {}
    /\ rQ = 0
    /\ received = 0
    /\ syncClose = FALSE
    /\ timers = << >>
    /\ displayPending = FALSE
    /\ pc = "none"
    /\ types = << >>
    /\ initSize = << >>
    /\ rects = 0
    /\ trace = << >>
    /\ disconnectCalled = {}
    /\ wire = << >>
    /\ rQbuf = << >>
    /\ rQi = 0
    /\ loc = NoLocals
    /\ decoders = NewDecoders
    /\ viewOnly = FALSE
    /\ clipboard = NoClipboard
    /\ supportsFence = FALSE
    /\ sock = NewSock
    /\ input = NewInput
    /\ ciphers = NewCiphers

RecvNext == SockRecvMessage \/ SockClosed \/ SockRead
RecvSpec == SockInit /\ [][RecvNext]_vars

SendNext == SockPush \/ SockFlush
SendSpec == SockInit /\ [][SendNext]_vars

\* ------------------------------------------------------------- properties
Positions(t, io, name) == {i \in 1..Len(t) : Is(t[i], io, name)}
Occurs(io, name) == Positions(trace, io, name) # {}

\* C1: once the connection state is 'disconnected' no step changes it, be it
\* a disconnect() call, a transport event, a failure of the read driver or
\* the expiry of the disconnect timer.
C1_DisconnectedIsPermanent ==
    [][rfbConnectionState = "disconnected"
           => rfbConnectionState' = "disconnected"]_vars

\* disconnect() was called, the driver failed and the disconnect timer
\* expired, each when the state was 'disconnected' already
C1_Witness ==
    /\ rfbConnectionState = "disconnected"
    /\ "disconnected" \in disconnectCalled
    /\ disconnTimer # 0 /\ timers[disconnTimer] = "fired"
    /\ \E i \in Positions(trace, "state", "disconnected") :
           \E j \in i + 1..Len(trace) : trace[j].io = "fail"

\* C2: a step in which the read driver catches an error while the state is
\* 'connecting' or 'connected' ends the driver for good, and in that same
\* step the state goes to 'disconnecting', then to 'disconnected', and the
\* disconnect event is dispatched with clean = FALSE, whatever the transport
\* does.
C2_DriverErrorDisconnects ==
    [][/\ (/\ pc # "caught" /\ pc' = "caught"
           /\ rfbConnectionState \in {"connecting", "connected"})
          => /\ rfbConnectionState' = "disconnected"
             /\ Len(trace') >= Len(trace) + 4
             /\ Is(trace'[Len(trace') - 2], "state", "disconnecting")
             /\ Is(trace'[Len(trace') - 1], "state", "disconnected")
             /\ Is(trace'[Len(trace')], "event", "disconnect")
             /\ trace'[Len(trace')].a = FALSE
       /\ pc = "caught" => pc' = "caught"]_vars

\* a decoder or message handler failed while connected; the state is
\* 'disconnected' and the transport has not closed yet
C2_Witness ==
    /\ pc = "caught"
    /\ Occurs("state", "connected")
    /\ Occurs("fail", "ProtocolError")
    /\ rfbConnectionState = "disconnected"
    /\ readyState = "closing"

\* C3: after disconnect() has been called in state 'connecting' or
\* 'connected' the state eventually is 'disconnected', even if the transport
\* never delivers its close event: the disconnect timer sees to it.
C3_DisconnectTerminates ==
    (disconnectCalled \cap {"connecting", "connected"} # {})
        ~> (rfbConnectionState = "disconnected")

\* disconnect() was called while connected, the close event has not come and
\* the timer has forced the state to 'disconnected'
C3_Witness ==
    /\ "connected" \in disconnectCalled
    /\ rfbConnectionState = "disconnected"
    /\ readyState = "closing"
    /\ \E id \in 1..Len(timers) : timers[id] = "fired"

FbUpdateRequests(t) == Positions(t, "send", "FramebufferUpdateRequest")

\* C4: once disconnect() has been called while connected, no step sends a
\* FramebufferUpdateRequest, a step of a read driver that was suspended in
\* the middle of a FramebufferUpdate at the time of the call included.
C4_NoUpdateRequestAfterDisconnect ==
    []["connected" \in disconnectCalled
           => FbUpdateRequests(trace') = FbUpdateRequests(trace)]_vars

DisconnectEvents == Positions(trace, "event", "disconnect")

\* C5: when disconnect() was called while connected and no handler or
\* decoder of the read driver has failed, the disconnect event that is
\* dispatched carries clean = TRUE, also when the close of the transport has
\* failed the driver's pending read and the driver has gone through its
\* catch clause.
C5_CleanDisconnect ==
    (/\ "connected" \in disconnectCalled
     /\ ~Occurs("fail", "ProtocolError")
     /\ rfbConnectionState = "disconnected")
        => /\ DisconnectEvents # {}
           /\ \A i \in DisconnectEvents : trace[i].a = TRUE

\* disconnect() was called while connected, the close event failed the
\* driver's pending read, the driver has left through its catch clause, and
\* the disconnect event carries clean = TRUE
C5_Witness ==
    /\ "connected" \in disconnectCalled
    /\ ~Occurs("fail", "ProtocolError")
    /\ pc = "caught"
    /\ Occurs("fail", "ConnectionClosed")
    /\ rfbConnectionState = "disconnected"
    /\ \E i \in DisconnectEvents : trace[i].a = TRUE

\* C6: a disconnect() call in state 'disconnecting' leaves the state, the
\* transport, the disconnect timer and the trace of events, messages and
\* state changes as they are.
C6_DisconnectWhileDisconnecting ==
    [][(rfbConnectionState = "disconnecting" /\ Disconnect)
           => UNCHANGED << rfbConnectionState, readyState, timers,
                           disconnTimer, trace, rfbCleanDisconnect, pc >>]_vars

\* disconnect() has been called in state 'disconnecting', and the state is
\* 'disconnecting' with its one timer pending
C6_Witness ==
    /\ "disconnecting" \in disconnectCalled
    /\ rfbConnectionState = "disconnecting"
    /\ timers = << "pending" >>

InitMessages == {"SetPixelFormat", "SetEncodings", "FramebufferUpdateRequest"}

\* C7: the state becomes 'connected' right after SetPixelFormat, SetEncodings
\* and a non-incremental FramebufferUpdateRequest for the whole framebuffer
\* of the ServerInit message have been sent, in this order, and the connect
\* event follows the state change; before the ServerInit message has been
\* read, in Tight mode with its capability lists, none of these messages is
\* sent.
C7_ServerInitOrder ==
    /\ \A i \in 1..Len(trace) :
           (trace[i].io = "send" /\ trace[i].name \in InitMessages)
               => /\ \E j \in 1..i - 1 : Is(trace[j], "recv", "ServerInit")
                  /\ rfbTightVNC
                         => \E j \in 1..i - 1 :
                                Is(trace[j], "recv", "ServerInitTight")
    /\ \A i \in Positions(trace, "state", "connected") :
           /\ i > 4 /\ i < Len(trace)
           /\ Is(trace[i - 3], "send", "SetPixelFormat")
           /\ Is(trace[i - 2], "send", "SetEncodings")
           /\ Is(trace[i - 1], "send", "FramebufferUpdateRequest")
           /\ trace[i - 1].a = FALSE
           /\ \E j \in Positions(trace, "recv", "ServerInit") :
                  trace[i - 1].b = << 0, 0, trace[j].a[1], trace[j].a[2] >>
           /\ Is(trace[i + 1], "event", "connect")
           /\ \A j \in 1..i - 4 :
                  ~(trace[j].io = "send" /\ trace[j].name \in InitMessages)
    /\ \A i \in Positions(trace, "event", "connect") :
           i > 1 /\ Is(trace[i - 1], "state", "connected")

\* a connection in Tight mode is connected: the capability lists were read
\* and the three messages sent
C7_Witness ==
    /\ rfbTightVNC
    /\ rfbConnectionState = "connected"
    /\ Occurs("recv", "ServerInitTight")
    /\ Occurs("send", "SetEncodings")

\* C8: with protocol version 3.7 or 3.8 a ClientInit message is sent only
\* after a SecurityResult with status 0 has been read, and once a
\* SecurityResult with another status has been read no ClientInit message is
\* ever sent and the state never is 'connected'.
C8_ClientInitAfterSecurityResult ==
    rfbVersion \in {37, 38}
        => /\ \A i \in Positions(trace, "send", "ClientInit") :
                  \E j \in 1..i - 1 :
                      Is(trace[j], "recv", "SecurityResult") /\ trace[j].a = 0
           /\ \A j \in Positions(trace, "recv", "SecurityResult") :
                  trace[j].a # 0
                      => /\ ~Occurs("send", "ClientInit")
                         /\ ~Occurs("state", "connected")
                         /\ rfbConnectionState # "connected"

\* a server of version 3.7 has refused the client in its SecurityResult and
\* the driver has ended
C8_Witness ==
    /\ rfbVersion = 37
    /\ \E j \in Positions(trace, "recv", "SecurityResult") : trace[j].a # 0
    /\ pc = "caught"

\* the security types the client supports
ClientTypes ==
    { securityTypeNone, securityTypeVNCAuth, securityTypeTight,
      securityTypeVeNCrypt, securityTypeXVP, securityTypeARD,
      securityTypeRA2ne, securityTypeMSLogonII, securityTypePlain }
NewEntries == SubSeq(trace', Len(trace) + 1, Len(trace'))
AnySend(t) == {i \in 1..Len(t) : t[i].io = "send"}

\* C9: the Security step of version 3.7 and later, given the server's list:
\* an empty list leads to SecurityReason with status 1; of any other list
\* the client sends, as its only message, the first entry that is one of its
\* supported types, and when there is none it sends nothing and the
\* connection fails.
C9_FirstSupportedType ==
    [][/\ \A list \in TypeLists :
              (/\ pc = "Security" /\ rfbVersion >= 37 /\ rQ > 0
               /\ Commit(negotiateSecurityRead(Consume(World), list)))
                  => /\ AnySend(NewEntries) = {}
                     /\ IF list = << >>
                        THEN /\ rfbInitState' = "SecurityReason"
                             /\ securityStatus' = 1
                             /\ rfbConnectionState' = "connecting"
                             /\ pc' = "top"
                        ELSE pc' = "SecurityChoose" /\ types' = list
       /\ (pc = "SecurityChoose" /\ pc' # "SecurityChoose")
              => LET sup == {k \in 1..Len(types) : types[k] \in ClientTypes}
                 IN  IF sup = {}
                     THEN /\ AnySend(NewEntries) = {}
                          /\ rfbConnectionState' = "disconnected"
                          /\ pc' = "caught"
                     ELSE /\ AnySend(NewEntries) = {1}
                          /\ Is(NewEntries[1], "send", "SecurityType")
                          /\ \E k \in sup :
                                 /\ \A m \in sup : k <= m
                                 /\ NewEntries[1].a = types[k]
                          /\ rfbInitState' = "Authentication"
                          /\ rfbConnectionState' = "connecting"]_vars

\* the client has answered a list of a server of version 3.7 or later with
\* VNC authentication and goes on to authenticate
C9_Witness ==
    /\ rfbVersion >= 37
    /\ rfbInitState = "Authentication"
    /\ rfbAuthScheme = securityTypeVNCAuth
    /\ \E i \in Positions(trace, "send", "SecurityType") :
           trace[i].a = securityTypeVNCAuth

SecurityFailures == Positions(trace, "event", "securityfailure")

\* C10: a securityfailure event carries as status the status of the
\* SecurityResult if one was read and 1 otherwise, and as reason the reason
\* the server sent if that is not empty; a disconnect event with
\* clean = FALSE follows it and no connect event does.
C10_SecurityFailure ==
    \A i \in SecurityFailures :
        /\ IF \E j \in 1..i - 1 : Is(trace[j], "recv", "SecurityResult")
           THEN \A j \in 1..i - 1 :
                    Is(trace[j], "recv", "SecurityResult")
                        => trace[i].a = trace[j].a /\ trace[j].a # 0
           ELSE trace[i].a = 1
        /\ IF \E j \in 1..i - 1 : Is(trace[j], "recv", "SecurityReason")
           THEN i > 1 /\ Is(trace[i - 1], "recv", "SecurityReason")
                /\ trace[i].b = trace[i - 1].a
           ELSE trace[i].b = "" /\ rfbVersion = 37
        /\ \E j \in i + 1..Len(trace) :
               Is(trace[j], "event", "disconnect") /\ trace[j].a = FALSE
        /\ \A j \in DisconnectEvents : trace[j].a = FALSE
        /\ \A j \in i + 1..Len(trace) : ~Is(trace[j], "event", "connect")

\* a server of version 3.8 has answered with SecurityResult 2 and a reason,
\* and the event carries both
C10_Witness ==
    \E i \in SecurityFailures : trace[i].a = 2 /\ trace[i].b = "denied"

\* ------------------------------------------- properties of the normal loop
IsRect(e) == Is(e, "recv", "Rect")
IsFlip(e) == Is(e, "draw", "flip")
\* the rectangle headers the driver has read, in the order of reading
RectsRead == SelectSeq(trace, IsRect)
\* the rectangle a draw call paints
DrawDest(e) == IF e.name = "copyImage" THEN e.b ELSE e.a
\* the headers of rectangles with pixels
PixelRects ==
    {k \in Positions(trace, "recv", "Rect") :
         /\ trace[k].a[5] # pseudoEncodingLastRect
         /\ trace[k].a[3] > 0 /\ trace[k].a[4] > 0}

\* C11: the driver reads the rectangles in the order in which the server
\* sent them; after the header of a rectangle nothing happens before its
\* pixels are drawn, neither the next header nor the end of the update; and
\* an incremental FramebufferUpdateRequest for the whole framebuffer follows
\* the end of every update, and is sent at no other time, unless continuous
\* updates are enabled.
C11_RectsInOrderThenRequest ==
    /\ \A i \in 1..Len(RectsRead) : RectsRead[i].a[1] = i
    /\ \A k \in PixelRects :
           k < Len(trace)
               => /\ trace[k + 1].io = "draw" /\ ~IsFlip(trace[k + 1])
                  /\ DrawDest(trace[k + 1]) = SubSeq(trace[k].a, 1, 4)
    /\ \A f \in Positions(trace, "draw", "flip") :
           ~enabledContinuousUpdates
               => /\ f < Len(trace)
                  /\ Is(trace[f + 1], "send", "FramebufferUpdateRequest")
                  /\ trace[f + 1].a = TRUE
                  /\ trace[f + 1].b = << 0, 0, fbWidth, fbHeight >>
    /\ \A s \in Positions(trace, "send", "FramebufferUpdateRequest") :
           /\ ~enabledContinuousUpdates
           /\ s > 1 /\ IsFlip(trace[s - 1])

UpdatesRead == Positions(trace, "recv", "FramebufferUpdate")
\* the positions of the driver inside _framebufferUpdate
InUpdatePCs ==
    {"fbuFlush", "rectHeader", "raw"} \cup RREPCs \cup HextilePCs
        \cup TightPCs \cup JPEGPCs
Least(S) == CHOOSE k \in S : \A m \in S : k <= m
Greatest(S) == CHOOSE k \in S : \A m \in S : k >= m

\* C12: of the entries of the trace between the header of a
\* FramebufferUpdate and the header of the next, at most one is a flip();
\* it comes after every rectangle header and draw call of the update, and
\* when it comes the driver has read either the announced number of
\* rectangles and no LastRect, or at most that number with a LastRect as the
\* last of them; and an update without flip() is the one the driver is
\* still in, or has failed in.
C12_FlipOncePerUpdate ==
    \A h \in UpdatesRead :
        LET n == trace[h].a
            later == {k \in UpdatesRead : k > h}
            end == IF later = {} THEN Len(trace) + 1 ELSE Least(later)
            seg == h + 1..end - 1
            rs == {k \in seg : IsRect(trace[k])}
            last == {k \in rs : trace[k].a[5] = pseudoEncodingLastRect}
            flips == {k \in seg : IsFlip(trace[k])}
        IN  /\ Cardinality(flips) <= 1
            /\ \A f \in flips :
                   /\ \A k \in seg :
                          (IsRect(trace[k]) \/ trace[k].io = "draw") => k <= f
                   /\ IF last = {} THEN Cardinality(rs) = n
                      ELSE /\ Cardinality(last) = 1
                           /\ Greatest(rs) \in last
                           /\ Cardinality(rs) <= n
            /\ flips = {}
                   => /\ later = {}
                      /\ pc \in InUpdatePCs \cup {"caught"}
                      /\ last = {}
                      /\ Cardinality(rs) <= n
                      /\ pc = "rectHeader" => Cardinality(rs) < n

\* two updates have been processed: one with a rectangle that was drawn,
\* and one that a LastRect ended before the announced number of rectangles
C12_Witness ==
    /\ pc = "msgType"
    /\ Cardinality(Positions(trace, "draw", "flip")) = 2
    /\ \E k \in Positions(trace, "draw", "blitImage") :
           \E f \in Positions(trace, "draw", "flip") : k < f
    /\ \E h \in UpdatesRead :
           \E k \in Positions(trace, "recv", "Rect") :
               /\ k = h + 1
               /\ trace[k].a[5] = pseudoEncodingLastRect
               /\ trace[h].a = 1

\* C13: when the renderer reports pending() at the header of a
\* FramebufferUpdate the driver waits for flush() without reading a
\* rectangle or calling the renderer; as long as it waits and the renderer
\* is pending nothing is read and nothing is drawn.
C13_FlushBeforeRects ==
    [][/\ (pc = "fbuHeader" /\ pc' # "fbuHeader" /\ displayPending)
              => /\ pc' = "fbuFlush"
                 /\ Len(NewEntries) = 1
                 /\ Is(NewEntries[1], "recv", "FramebufferUpdate")
                 /\ rQi' = rQi + 3
       /\ (pc = "fbuFlush" /\ displayPending)
              => /\ pc' = "fbuFlush"
                 /\ trace' = trace
                 /\ rQi' = rQi]_vars

\* the driver waits for the renderer while a whole rectangle of the update
\* is in the receive queue
C13_Witness ==
    /\ pc = "fbuFlush"
    /\ displayPending
    /\ rects > 0
    /\ Len(rQbuf) >= 12

\* C14: the step in which the driver reads the header of a CopyRect
\* rectangle and the decoder returns also consumes the four bytes of the
\* source position, and for a rectangle that is not empty it calls
\* copyImage(srcX, srcY, x, y, width, height) exactly once, whether or not
\* the four bytes had arrived with the header.
C14_CopyRectWholeRect ==
    [][(/\ pc = "rectHeader"
        /\ Len(NewEntries) > 0
        /\ Is(NewEntries[1], "recv", "Rect")
        /\ NewEntries[1].a[5] = encodingCopyRect)
           => LET r == NewEntries[1].a
                  copies == SelectSeq(NewEntries,
                                LAMBDA e : Is(e, "draw", "copyImage"))
              IN  /\ rQi' = rQi + 12 + 4
                  /\ (r[3] > 0 /\ r[4] > 0)
                         => /\ Len(copies) = 1
                            /\ copies[1].b = <<r[1], r[2], r[3], r[4]>>
                            /\ copies[1].a = <<shift16(SubSeq(rQbuf, 13, 14)),
                                               shift16(SubSeq(rQbuf, 15, 16))>>]_vars

\* the positions of the driver inside a decoder
DecoderPCs ==
    {"raw"} \cup RREPCs \cup HextilePCs \cup TightPCs \cup JPEGPCs
\* the draw calls of a step that paint at least one pixel
Painted ==
    SelectSeq(NewEntries,
              LAMBDA e : /\ e.io = "draw"
                         /\ e.name # "flip"
                         /\ DrawDest(e)[3] * DrawDest(e)[4] > 0)
\* the header of a rectangle without pixels, of one of the five encodings,
\* is read in this step
ReadsZeroSizeHeader ==
    /\ pc = "rectHeader"
    /\ Len(NewEntries) > 0
    /\ Is(NewEntries[1], "recv", "Rect")
    /\ NewEntries[1].a[3] = 0 \/ NewEntries[1].a[4] = 0
    /\ NewEntries[1].a[5] \in {encodingRaw, encodingCopyRect, encodingRRE,
                               encodingHextile, encodingTight}
\* the driver is in the decoder of a rectangle without pixels
InZeroSizeRect ==
    /\ pc \in DecoderPCs
    /\ loc.width = 0 \/ loc.height = 0

\* C15: of a rectangle of width 0 or height 0 the decoders read, after the
\* rectangle header, the 4 bytes of the source position (CopyRect), the 8
\* bytes of the number of subrectangles and the background (RRE), nothing
\* (Raw, Hextile), the control byte and, when the control byte announces
\* one, the filter byte (Tight with basic compression), and then return;
\* and no draw call for such a rectangle paints a pixel.
C15_ZeroSizeRects ==
    [][/\ ReadsZeroSizeHeader
              => LET enc == NewEntries[1].a[5]
                 IN  CASE enc \in {encodingRaw, encodingHextile} ->
                              rQi' = rQi + 12 /\ pc' \notin DecoderPCs
                       [] enc = encodingCopyRect ->
                              rQi' = rQi + 12 + 4 /\ pc' \notin DecoderPCs
                       [] enc = encodingRRE ->
                              rQi' = rQi + 12 /\ pc' = "rre"
                       [] enc = encodingTight ->
                              rQi' = rQi + 12 /\ pc' = "tight"
       /\ (InZeroSizeRect /\ pc = "rre" /\ pc' # pc)
              => rQi' = rQi + 8 /\ pc' \notin DecoderPCs
       /\ (InZeroSizeRect /\ pc = "tight" /\ pc' # pc /\ rQbuf[1] < 128)
              => /\ rQi' = rQi + 1
                 /\ IF Bit(rQbuf[1], 64) THEN pc' = "tightFilter"
                    ELSE pc' \notin DecoderPCs
       /\ (InZeroSizeRect /\ pc = "tightFilter" /\ pc' # pc)
              => rQi' = rQi + 1 /\ pc' \notin DecoderPCs
       /\ (ReadsZeroSizeHeader \/ InZeroSizeRect) => Painted = << >>]_vars

\* the calls of reset() on inflate streams in a step
Resets == SelectSeq(NewEntries, LAMBDA e : Is(e, "zlib", "reset"))
\* the streams i..3 that the control byte ctl names, as reset() calls of the
\* decoder of the encoding enc
RECURSIVE NamedResets(_, _, _)
NamedResets(enc, ctl, i) ==
    IF i = 4 THEN << >>
    ELSE (IF (ctl \div (2 ^ i)) % 2 = 1
          THEN << Entry("zlib", "reset", << enc, i >>, "") >> ELSE << >>)
             \o NamedResets(enc, ctl, i + 1)
IsPrefix(s, t) == Len(s) <= Len(t) /\ SubSeq(t, 1, Len(s)) = s

\* C16: the step in which the Tight or TightPNG decoder reads the control
\* byte of a rectangle consumes that byte only and resets exactly the
\* inflate streams of that decoder whose bit is set in it, leaving the other
\* streams as they are and inflating nothing; in every other step no stream
\* is reset: a stream stays as it is or, when the decoder inflates the
\* rectangle's data through it, is continued.
C16_StreamResets ==
    [][IF pc = "tight" /\ pc' # pc
       THEN LET ctl == rQbuf[1]
                mine == IF loc.encoding = encodingTightPNG
                        THEN "zlibsTightPNG" ELSE "zlibsTight"
                other == IF loc.encoding = encodingTightPNG
                         THEN "zlibsTight" ELSE "zlibsTightPNG"
            IN  /\ rQi' = rQi + 1
                /\ Resets = NamedResets(loc.encoding, ctl, 0)
                /\ \A k \in 1..Len(NewEntries) :
                       NewEntries[k].io = "zlib"
                           => NewEntries[k].name = "reset"
                /\ \A i \in 0..3 :
                       decoders'[mine][i + 1] =
                           IF (ctl \div (2 ^ i)) % 2 = 1 THEN << >>
                           ELSE decoders[mine][i + 1]
                /\ decoders'[other] = decoders[other]
       ELSE /\ Resets = << >>
            /\ \A z \in {"zlibsTight", "zlibsTightPNG"} : \A i \in 1..4 :
                   \/ decoders'[z][i] = decoders[z][i]
                   \/ /\ pc = "tightData"
                      /\ loc.kind = "zlib"
                      /\ i = loc.streamId + 1
                      /\ z = (IF loc.encoding = encodingTightPNG
                              THEN "zlibsTightPNG" ELSE "zlibsTight")
                      /\ IsPrefix(decoders[z][i], decoders'[z][i])]_vars

\* stream 1 of the Tight decoder was reset by the control byte of one
\* rectangle and has inflated the data of that rectangle and of the next
C16_Witness ==
    /\ pc = "msgType"
    /\ Len(decoders.zlibsTight[2]) = 24
    /\ \E k \in Positions(trace, "zlib", "reset") :
           trace[k].a = << encodingTight, 1 >>
    /\ Cardinality(Positions(trace, "zlib", "inflate")) = 2
    /\ Cardinality(Positions(trace, "zlib", "reset")) = 2

\* the JPEG decoder reads the end of an image that has a frame header
EndsImage ==
    /\ pc = "jpegType" /\ pc' # pc
    /\ rQbuf[1] = 217
    /\ \E k \in 1..Len(loc.segments) : loc.segments[k][2] \in {192, 194}
\* the segments of the image that ends, and its tables
ImageSegments == Append(loc.segments, << 255, 217 >>)
ImageDHT == SelectSeq(ImageSegments, LAMBDA s : s[2] = 196)
ImageDQT == SelectSeq(ImageSegments, LAMBDA s : s[2] = 219)
\* the segments up to the first frame header, and after it
UpToSOF ==
    LET k == CHOOSE k \in 1..Len(loc.segments) :
                 /\ loc.segments[k][2] \in {192, 194}
                 /\ \A m \in 1..k - 1 : loc.segments[m][2] \notin {192, 194}
    IN  SubSeq(ImageSegments, 1, k)
AfterSOF == SubSeq(ImageSegments, Len(UpToSOF) + 1, Len(ImageSegments))
\* the images given to the renderer in a step
Images == SelectSeq(NewEntries, LAMBDA e : Is(e, "draw", "imageRect"))
\* a rectangle that carries tables of a kind replaces the cached tables of
\* that kind, one that carries none leaves them
CachesReplaced ==
    /\ decoders'.cachedHuffmanTables =
           IF ImageDHT # << >> THEN ImageDHT ELSE decoders.cachedHuffmanTables
    /\ decoders'.cachedQuantTables =
           IF ImageDQT # << >> THEN ImageDQT ELSE decoders.cachedQuantTables

\* C17: the image the JPEG decoder passes to the renderer is the
\* rectangle's segments with, directly after the first frame header, the
\* cached Huffman tables when the rectangle carries none, followed by the
\* cached quantization tables when the rectangle carries none; the tables a
\* rectangle carries replace the cached tables of their kind.
C17_TablesFromCache ==
    [][EndsImage
           => /\ Len(Images) = 1
              /\ Images[1].b =
                     << "image/jpeg",
                        Flatten(UpToSOF
                            \o (IF ImageDHT = << >>
                                THEN decoders.cachedHuffmanTables ELSE << >>)
                            \o (IF ImageDQT = << >>
                                THEN decoders.cachedQuantTables ELSE << >>)
                            \o AfterSOF) >>
              /\ CachesReplaced]_vars

\* C17 as stated: the cached tables of either kind come directly after the
\* frame header when the rectangle carries none of that kind.
C17_TablesDirectlyAfterSOF ==
    [][EndsImage
           => /\ Len(Images) = 1
              /\ ImageDHT = << >>
                     => IsPrefix(Flatten(UpToSOF
                                     \o decoders.cachedHuffmanTables),
                                 Images[1].b[2])
              /\ ImageDQT = << >>
                     => IsPrefix(Flatten(UpToSOF \o decoders.cachedQuantTables),
                                 Images[1].b[2])
              /\ CachesReplaced]_vars

\* an image without tables has followed an image with both kinds of tables
C17_Witness ==
    /\ pc = "msgType"
    /\ \E k \in Positions(trace, "draw", "imageRect") :
           trace[k].b = << "image/jpeg",
                           << 255, 216, 255, 192, 0, 2, 255, 196, 0, 3, 17,
                              255, 219, 0, 3, 1, 255, 218, 0, 2, 5,
                              255, 217 >> >>

Abs(n) == IF n < 0 THEN 0 - n ELSE n
\* the handler of ServerCutText returns in this step
CutTextHandled == pc \in CutTextPCs /\ pc' \notin CutTextPCs /\ pc' # "caught"
\* the header of the ServerCutText message that is being handled: its
\* length field, and the number of bytes read when the header had been read
CutTextHeader ==
    LET t == trace'
        at == Positions(t, "recv", "ServerCutText")
    IN  t[Greatest(at)]

\* C18: when the handler of a ServerCutText message returns, the driver has
\* read, after the 3 bytes of padding and the 4 bytes of the length, as many
\* bytes as the absolute value of the length says: the next byte it reads
\* is the type of the next message.
C18_CutTextConsumed ==
    [][CutTextHandled => rQi' = CutTextHeader.b + Abs(CutTextHeader.a)]_vars

\* a text with every CR LF, lone CR and lone LF replaced by LF
RECURSIVE CanonicalLines(_)
CanonicalLines(text) ==
    IF text = << >> THEN << >>
    ELSE IF Len(text) >= 2 /\ text[1] = 13 /\ text[2] = 10
    THEN << 10 >> \o CanonicalLines(SubSeq(text, 3, Len(text)))
    ELSE IF text[1] = 13 THEN << 10 >> \o CanonicalLines(Tail(text))
    ELSE << text[1] >> \o CanonicalLines(Tail(text))
\* a text without its last character when that is NUL
WithoutNul(text) ==
    IF text # << >> /\ text[Len(text)] = 0
    THEN SubSeq(text, 1, Len(text) - 1) ELSE text
\* the text the server provides in the message whose payload the driver is
\* about to read: the payload inflated, the chunk of the format Text decoded
ProvidedText ==
    LET out == inflateBytes(<< >>, SubSeq(rQbuf, 1, loc.length), << >>).out
    IN  decodeUTF8(SubSeq(out, 5, 4 + shift32(SubSeq(out, 1, 4)))).text
ClipboardEvents == SelectSeq(NewEntries, LAMBDA e : Is(e, "event", "clipboard"))

\* C19: the handler of a Provide message with the format Text dispatches one
\* clipboard event, and its text is the provided text without its trailing
\* NUL and with LF for every CR LF, CR and LF.
C19_ProvideTextCanonical ==
    [][(pc = "cutTextProvide" /\ pc' # pc /\ pc' # "caught")
           => /\ Len(ClipboardEvents) = 1
              /\ ClipboardEvents[1].a = CanonicalLines(WithoutNul(ProvidedText))]_vars

\* the header of the ServerFence message that is being handled
FenceHeader ==
    LET t == trace'
    IN  t[Greatest(Positions(t, "recv", "ServerFence"))]
ClientFences == SelectSeq(NewEntries, LAMBDA e : Is(e, "send", "ClientFence"))

\* C20: when the handler of a ServerFence message with the Request bit has
\* read the payload, the driver has read as many bytes after the header as
\* the length byte says, and the handler sends one ClientFence with the
\* flags BlockBefore and BlockAfter of the request and with that payload.
C20_FenceEchoed ==
    [][(pc = "fencePayload" /\ pc' # pc /\ FenceHeader.a[1][1] >= 128)
           => /\ rQi' = FenceHeader.b + FenceHeader.a[2]
              /\ Len(ClientFences) = 1
              /\ ClientFences[1].a = FenceHeader.a[1][4] % 4
              /\ ClientFences[1].b = SubSeq(rQbuf, 1, FenceHeader.a[2])]_vars
\* the step reads the message type t off the receive queue
ReadsMsgType(t) ==
    /\ pc = "msgType" /\ Len(rQbuf) >= 1 /\ rQbuf[1] = t
    /\ rQi' = rQi + 1

EnableContinuousUpdatesSent(t) ==
    Positions(t, "send", "EnableContinuousUpdates")

\* C21: the EndOfContinuousUpdates message read while
\* supportsContinuousUpdates is not set sets supportsContinuousUpdates and
\* enabledContinuousUpdates and makes the client send, as the only message,
\* one EnableContinuousUpdates(1, 0, 0, fbWidth, fbHeight); and while
\* enabledContinuousUpdates is set no step, that of the end of a
\* FramebufferUpdate included, sends a FramebufferUpdateRequest.
C21_ContinuousUpdates ==
    [][/\ (ReadsMsgType(150) /\ ~supportsContinuousUpdates)
           => /\ supportsContinuousUpdates' /\ enabledContinuousUpdates'
              /\ NewEntries
                     = << Msg("EnableContinuousUpdates", TRUE,
                              << 0, 0, fbWidth, fbHeight >>) >>
       /\ enabledContinuousUpdates
           => FbUpdateRequests(trace') = FbUpdateRequests(trace)]_vars

\* continuous updates were enabled by a message of the server, and a
\* FramebufferUpdate has been completed since
C21_Witness ==
    /\ enabledContinuousUpdates
    /\ pc = "msgType"
    /\ \E e \in EnableContinuousUpdatesSent(trace) :
           /\ e < Len(trace)
           /\ Is(trace[Len(trace)], "draw", "flip")
\* the step is a call of a typed read
ReadCalled ==
    /\ NewEntries # << >>
    /\ NewEntries[1].io = "call" /\ NewEntries[1].name \in ReadOps

ChunkReceived == NewEntries # << >> /\ NewEntries[1].io = "chunk"
\* the number of bytes received and not read
rQavailable == sock.rQlen - sock.rQi
Returns(e, d) == e.io = "return" /\ e.name = d.op /\ e.a = d.num

\* C23: a read called with its bytes available returns in the same step; a
\* read called with fewer bytes available, and no read waiting, becomes the
\* pending demand and returns nothing; a chunk that leaves fewer bytes
\* available than the pending demand asks for leaves it pending, and the
\* chunk that makes its bytes available resolves it in the same step; so a
\* demand is never pending while its bytes are available.
C23_ReadResolvedWhenAvailable ==
    /\ [](sock.waiters # << >> => rQavailable < Head(sock.waiters).num)
    /\ [][/\ (ReadCalled /\ rQavailable >= NewEntries[1].a)
               => /\ Len(NewEntries) = 2
                  /\ Returns(NewEntries[2],
                             [op |-> NewEntries[1].name,
                              num |-> NewEntries[1].a])
                  /\ sock'.waiters = sock.waiters
          /\ (ReadCalled /\ rQavailable < NewEntries[1].a
                  /\ sock.waiters = << >>)
               => /\ Len(NewEntries) = 1
                  /\ sock'.waiters = << [op |-> NewEntries[1].name,
                                         num |-> NewEntries[1].a] >>
          /\ (ChunkReceived /\ sock.waiters # << >>)
               => LET d == Head(sock.waiters)
                  IN  IF rQavailable + Len(NewEntries[1].a) >= d.num
                      THEN /\ Len(NewEntries) = 2
                           /\ Returns(NewEntries[2], d)
                           /\ sock'.waiters = << >>
                      ELSE /\ Len(NewEntries) = 1
                           /\ sock'.waiters = sock.waiters]_vars

\* a read was called, two chunks have arrived since, and the second one has
\* resolved it
C23_Witness ==
    /\ Len(trace) >= 4
    /\ LET n == Len(trace)
       IN  /\ trace[n - 3].io = "call"
           /\ trace[n - 2].io = "chunk" /\ trace[n - 1].io = "chunk"
           /\ Returns(trace[n], [op |-> trace[n - 3].name,
                                 num |-> trace[n - 3].a])
           /\ Len(trace[n - 2].a) < trace[n].a
\* the number of bytes the reads of the trace t have taken off the queue
RECURSIVE Consumed(_)
Consumed(t) ==
    IF t = << >> THEN 0
    ELSE Consumed(SubSeq(t, 1, Len(t) - 1))
             + (IF t[Len(t)].io = "return" /\ t[Len(t)].name \notin Peeks
                THEN t[Len(t)].a ELSE 0)

\* the bytes that make the value a read has returned
bytesOf(op, value) ==
    CASE op \in {"rQpeek8", "rQshift8"} -> << value >>
      [] op = "rQshift16" -> U16(value)
      [] op = "rQshift32" -> U32(value)
      [] op = "rQshiftStr" -> value.string
      [] OTHER -> value.array

\* C24: the number of bytes available and the number of bytes the reads
\* have consumed add up to the number of bytes received, through every
\* reset, compaction and enlargement of the buffer; the unread part of the
\* buffer holds the received bytes that were not consumed; and every read
\* and every peek has returned the received bytes that follow those
\* consumed before it, a peek consuming none.
C24_BytesInArrivalOrder ==
    /\ 0 <= sock.rQi /\ sock.rQi <= sock.rQlen
    /\ sock.rQlen <= sock.rQbufferSize /\ Len(sock.rQ) = sock.rQbufferSize
    /\ rQavailable + Consumed(trace) = Len(Arrived)
    /\ SubSeq(sock.rQ, sock.rQi + 1, sock.rQlen)
           = SubSeq(Arrived, Consumed(trace) + 1, Len(Arrived))
    /\ \A i \in 1..Len(trace) :
           (trace[i].io = "return" /\ trace[i].name # "rQskipBytes")
               => LET before == Consumed(SubSeq(trace, 1, i - 1))
                      all == Flatten([j \in 1..i |->
                                         IF trace[j].io = "chunk"
                                         THEN trace[j].a ELSE << >>])
                  IN  /\ before + trace[i].a <= Len(all)
                      /\ bytesOf(trace[i].name, trace[i].b)
                             = SubSeq(all, before + 1, before + trace[i].a)

\* a read has taken bytes off the queue and left some, and the chunk that
\* came next has moved the unread bytes to the start of the buffer, which
\* is the one the Websock began with
C24_Witness ==
    /\ sock.rQbufferSize = rQbufferSizeInit
    /\ Len(trace) >= 2
    /\ trace[Len(trace)].io = "chunk"
    /\ trace[Len(trace) - 1].io = "return"
    /\ trace[Len(trace) - 1].name \notin Peeks
    /\ rQavailable > Len(trace[Len(trace)].a)
    /\ sock.rQi = 0
\* the bytes a call of a push has pushed
pushedBy(e) ==
    CASE e.name = "sQpush8" -> << e.a % 256 >>
      [] e.name = "sQpush16" -> U16(e.a)
      [] e.name = "sQpush32" -> U32(e.a)
      [] e.name \in {"sQpushBytes", "sQpushString"} -> PushData(e.a[1], e.a[2])
      [] OTHER -> << >>
Pushed(t) ==
    Flatten([i \in 1..Len(t) |->
                IF t[i].io = "call" THEN pushedBy(t[i]) ELSE << >>])
Frames(t) == {i \in 1..Len(t) : t[i].io = "frame"}
Sent(t) ==
    Flatten([i \in 1..Len(t) |->
                IF t[i].io = "frame" THEN t[i].a ELSE << >>])

\* C25: a frame goes to the transport only in a call of flush() or in a
\* push whose bytes do not fit behind the bytes the send buffer holds; a
\* flush() of a buffer that holds bytes sends them as one frame, a flush()
\* of an empty buffer sends nothing; no frame is empty or longer than the
\* 10240 bytes of the buffer; and the frames sent so far, followed by the
\* bytes buffered, are the bytes pushed so far in the order of the pushes.
C25_SendBuffer ==
    /\ [](/\ Len(sock.sQ) <= sQbufferSize
          /\ \A i \in Frames(trace) :
                 Len(trace[i].a) \in 1..sQbufferSize
          /\ Sent(trace) \o sock.sQ = Pushed(trace))
    /\ [][/\ Frames(trace') # Frames(trace)
               => /\ NewEntries[1].io = "call"
                  /\ \/ NewEntries[1].name = "flush"
                     \/ /\ NewEntries[1].name \in PushOps
                        /\ Len(sock.sQ) + Len(pushedBy(NewEntries[1]))
                               > sQbufferSize
          /\ (NewEntries # << >> /\ Is(NewEntries[1], "call", "flush"))
               => /\ sock'.sQ = << >>
                  /\ NewEntries
                         = IF sock.sQ = << >> THEN << NewEntries[1] >>
                           ELSE << NewEntries[1], Frame(sock.sQ) >>]_vars

\* a push has flushed the send buffer, no flush() was called, and bytes
\* are buffered
C25_Witness ==
    /\ Frames(trace) # {}
    /\ Calls({"flush"}) = {}
    /\ sock.sQ # << >>
    /\ \E i \in Calls({"sQpush16"}) : i > 1 /\ i < Len(trace)
\* the step ends the decoding of a Raw rectangle: one without pixels at its
\* header, another one at its pixels
RawDecoded ==
    \/ pc = "raw" /\ rQi' # rQi
    \/ /\ pc = "rectHeader"
       /\ Len(NewEntries) > 0
       /\ Is(NewEntries[1], "recv", "Rect")
       /\ NewEntries[1].a[5] = encodingRaw
       /\ NewEntries[1].a[3] = 0 \/ NewEntries[1].a[4] = 0
\* the step ends the decoding of a CopyRect rectangle, the source position
\* read
CopyRectDecoded ==
    /\ pc = "rectHeader"
    /\ Len(NewEntries) > 0
    /\ Is(NewEntries[1], "recv", "Rect")
    /\ NewEntries[1].a[5] = encodingCopyRect
    /\ rQi' = rQi + 12 + 4

\* C26: when the Raw decoder has read the pixels of its rectangle, or found
\* that it has none, and when the CopyRect decoder has read the source
\* position of its rectangle, be it empty or not, the promise of
\* decodeRect resolves to true.
C26_DecodeRectResolvesTrue ==
    [][(RawDecoded \/ CopyRectDecoded) => decoders'.done = "true"]_vars
\* the driver reads a field of the RRE rectangle it is in
ReadsRRE(at) == pc = at /\ rQi' # rQi

\* C27: the RRE decoder reads the 8 bytes of the number of subrectangles
\* and the background and fills the whole rectangle with the background;
\* it then reads 12 bytes for each of as many subrectangles as the number
\* says, no more and no fewer, and fills each at its position relative to
\* the rectangle with its colour, in the order of the wire; and its counter
\* of subrectangles is 0 whenever the driver is not inside an RRE
\* rectangle, so that every rectangle starts with its own number.
C27_RRERect ==
    [][/\ ReadsRRE("rre")
              => LET n == shift32(SubSeq(rQbuf, 1, 4))
                 IN  /\ rQi' = rQi + 8
                     /\ Len(NewEntries) > 0
                     /\ NewEntries[1] =
                            Draw("fillRect",
                                 << loc.x, loc.y, loc.width, loc.height >>,
                                 SubSeq(rQbuf, 5, 8))
                     /\ decoders'.subrects = n
                     /\ pc' = "rreSub" <=> n > 0
       /\ ReadsRRE("rreSub")
              => /\ rQi' = rQi + 12
                 /\ Len(NewEntries) > 0
                 /\ NewEntries[1] =
                        Draw("fillRect",
                             << loc.x + shift16(SubSeq(rQbuf, 5, 6)),
                                loc.y + shift16(SubSeq(rQbuf, 7, 8)),
                                shift16(SubSeq(rQbuf, 9, 10)),
                                shift16(SubSeq(rQbuf, 11, 12)) >>,
                             SubSeq(rQbuf, 1, 4))
                 /\ decoders.subrects > 0
                 /\ decoders'.subrects = decoders.subrects - 1
                 /\ pc' = "rreSub" <=> decoders'.subrects > 0
                 /\ pc' = "rreSub" => loc' = loc
       /\ (pc \in RREPCs /\ ~ReadsRRE(pc))
              => decoders'.subrects = decoders.subrects
       /\ pc' \notin RREPCs => decoders'.subrects = 0
       /\ (pc = "rectHeader" /\ pc' \in RREPCs)
              => pc' = "rre" /\ rQi' = rQi + 12]_vars

\* the second of two RRE rectangles with subrectangles has been decoded
C27_Witness ==
    /\ pc \notin RREPCs
    /\ \E i, j \in Positions(trace, "recv", "Rect") :
           /\ i < j
           /\ trace[i].a[5] = encodingRRE /\ trace[j].a[5] = encodingRRE
           /\ Len(trace) >= j + 3
           /\ \A k \in {i + 1, i + 2, j + 1, j + 2, j + 3} :
                  Is(trace[k], "draw", "fillRect")
\* what a step draws, the flip at the end of an update apart
TileDraws ==
    SelectSeq(NewEntries, LAMBDA e : e.io = "draw" /\ e.name # "flip")
\* the tile before the one the decoder is at, in the same rectangle, was raw
AfterRawTile == loc.currTile > 0 /\ Bit(loc.lastSubEncoding, 1)

\* C28: a Hextile tile of subencoding 0 takes its one byte off the queue
\* and nothing else; when the tile before it in the same rectangle was raw
\* nothing is drawn for it, and in every other case the area of the tile is
\* filled with the background the decoder has at that moment.  A tile is
\* after a raw tile exactly when the last tile that ended in this rectangle
\* had bit 0 of its subencoding set.
C28_BlankTile ==
    [][/\ (pc = "hextile" /\ rQi' # rQi /\ rQbuf[1] = 0)
              => /\ rQi' = rQi + 1
                 /\ TileDraws =
                        IF AfterRawTile THEN << >>
                        ELSE << Draw("fillRect", tileRect(World),
                                     loc.background) >>
                 /\ pc' \in HextilePCs
                        => /\ pc' = "hextile"
                           /\ loc'.currTile = loc.currTile + 1
                           /\ loc'.lastSubEncoding = 0
       /\ (pc = "hextileRaw" /\ rQi' # rQi /\ pc' \in HextilePCs)
              => /\ loc'.currTile = loc.currTile + 1
                 /\ Bit(loc'.lastSubEncoding, 1)
       /\ (/\ pc \in HextilePCs \ {"hextileRaw"}
           /\ pc' \in HextilePCs
           /\ loc'.currTile # loc.currTile)
              => /\ loc'.currTile = loc.currTile + 1
                 /\ ~Bit(loc'.lastSubEncoding, 1)
       /\ (pc \in HextilePCs /\ pc' \in HextilePCs
               /\ loc'.currTile = loc.currTile)
              => loc'.lastSubEncoding = loc.lastSubEncoding
       /\ (pc = "rectHeader" /\ pc' \in HextilePCs)
              => loc'.currTile = 0 /\ loc'.lastSubEncoding = 0]_vars

\* a tile of subencoding 0 after a raw tile has been passed without a draw
\* call, and the rectangle has another tile
C28_Witness ==
    /\ pc = "hextile"
    /\ loc.currTile = 2
    /\ loc.lastSubEncoding = 0
    /\ Is(trace[Len(trace)], "draw", "blitImage")
    /\ Len(trace[Len(trace)].b) = 64
\* a pixel of the colour c, opaque
Pixel(c) == << c[1], c[2], c[3], 255 >>
\* the decoder has thrown in this step
Thrown == pc' = "caught"

\* C29: a Hextile tile that specifies a background or a foreground sets
\* that colour, and no other step inside the rectangle changes either: a
\* tile that does not specify a colour is painted with the one the last
\* tile that did has left, its background all over and its subrectangles
\* without a colour of their own in the foreground.  A rectangle starts
\* without colours, so that a tile that needs one no tile of its own
\* rectangle has specified is not painted at all: the decoder throws.
C29_ColoursPersist ==
    [][/\ (pc = "hextileColours" /\ pc' # pc)
              => LET s == loc.subencoding
                     bg == IF Bit(s, 2) THEN SubSeq(rQbuf, 1, 4)
                           ELSE loc.background
                     fg == IF Bit(s, 4)
                           THEN SubSeq(rQbuf, loc.length - 3, loc.length)
                           ELSE loc.foreground
                 IN  IF bg = << >> THEN Thrown /\ TileDraws = << >>
                     ELSE /\ ~Thrown
                          /\ pc' \in HextilePCs
                                 => /\ loc'.background = bg
                                    /\ loc'.foreground = fg
                          /\ ~Bit(s, 8)
                                 => TileDraws =
                                        << Draw("blitImage", tileRect(World),
                                                Flatten([p \in 1..tw(World)
                                                             * th(World) |->
                                                            Pixel(bg)])) >>
       /\ (pc = "hextileSub" /\ pc' # pc /\ ~Bit(loc.subencoding, 16))
              => IF loc.foreground = << >>
                 THEN Thrown /\ TileDraws = << >>
                 ELSE /\ Len(TileDraws) = 1
                      /\ LET b == TileDraws[1].b
                             xy == rQbuf[1]
                             at == (xy \div 16) + (xy % 16) * tw(World)
                         IN  /\ Len(b) = 4 * Len(loc.tile)
                             /\ \A p \in 1..Len(loc.tile) :
                                    SubSeq(b, 4 * p - 3, 4 * p)
                                        \in {loc.tile[p],
                                             Pixel(loc.foreground)}
                             /\ at < Len(loc.tile)
                                    => SubSeq(b, 4 * at + 1, 4 * at + 4)
                                           = Pixel(loc.foreground)
       /\ (pc \in HextilePCs \ {"hextileColours"} /\ pc' \in HextilePCs)
              => /\ loc'.background = loc.background
                 /\ loc'.foreground = loc.foreground
       /\ (pc = "rectHeader" /\ pc' \in HextilePCs)
              => loc'.background = << >> /\ loc'.foreground = << >>]_vars

\* the fourth tile of a rectangle is painted: a subrectangle in the
\* foreground of the first tile on the background of the third
C29_Witness ==
    /\ Len(trace) > 4
    /\ LET e == trace[Len(trace)]
       IN  /\ Is(e, "draw", "blitImage")
           /\ e.a[3] = 1
           /\ e.b = Pixel(<< 4, 5, 6 >>)
    /\ LET e == trace[Len(trace) - 1]
       IN  /\ Is(e, "draw", "blitImage")
           /\ SubSeq(e.b, 1, 4) = Pixel(<< 7, 8, 9 >>)
\* the palette filter as the protocol has it: an index is a bit when the
\* palette has two colours and a byte otherwise, and a row is padded to
\* whole bytes
PaletteBpp == IF loc.numColors = 2 THEN 1 ELSE 8
PaletteStride == (loc.width * PaletteBpp + 7) \div 8
\* the index of pixel p, from 0, in the pixel data
PaletteIndex(data, p) ==
    IF PaletteBpp = 8 THEN data[p + 1]
    ELSE LET byte == data[(p \div loc.width) * PaletteStride
                              + ((p % loc.width) \div 8) + 1]
         IN  (byte \div (2 ^ (7 - ((p % loc.width) % 8)))) % 2
\* the rectangle drawn from the pixel data: every pixel in the colour of
\* the palette its index selects
PaletteDrawn(data) ==
    /\ Len(data) = PaletteStride * loc.height
    /\ Len(TileDraws) = 1
    /\ TileDraws[1].name = "blitImage"
    /\ TileDraws[1].a = << loc.x, loc.y, loc.width, loc.height >>
    /\ Len(TileDraws[1].b) = 4 * loc.width * loc.height
    /\ \A p \in 0..loc.width * loc.height - 1 :
           LET i == PaletteIndex(data, p)
           IN  i < loc.numColors
                   => SubSeq(TileDraws[1].b, 4 * p + 1, 4 * p + 4)
                          = Pixel(SubSeq(loc.palette, 3 * i + 1, 3 * i + 3))

\* C30: the palette filter of Tight reads a palette of 3 bytes a colour;
\* with bit indices exactly for a palette of two colours and byte indices
\* for every other one, and rows of ceil(width * bpp / 8) bytes, it then
\* reads stride * height bytes as they are when they are fewer than 12,
\* and otherwise a block with a compact length that inflates to as many;
\* and the image it draws has every pixel in the colour of the palette
\* entry of its index.
C30_PaletteFilter ==
    [][/\ (pc = "tightPaletteData" /\ rQi' # rQi)
              => LET size == PaletteStride * loc.height
                 IN  /\ rQi' = rQi + 3 * loc.numColors
                     /\ IF size = 0 THEN pc' \notin TightPCs
                        ELSE IF size < 12
                        THEN pc' = "tightRaw" /\ loc'.length = size
                        ELSE pc' = "tightLen" /\ loc'.size = size
       /\ (pc = "tightRaw" /\ loc.filter = 1 /\ rQi' # rQi)
              => /\ rQi' = rQi + loc.length
                 /\ PaletteDrawn(SubSeq(rQbuf, 1, loc.length))
       /\ (/\ pc = "tightData" /\ loc.kind = "zlib" /\ loc.filter = 1
           /\ pc' # pc)
              => LET r == inflate(
                              decoders[zlibsOf(loc.encoding)][loc.streamId + 1],
                              SubSeq(rQbuf, 1, loc.length), loc.size)
                 IN  /\ rQi' = rQi + loc.length
                     /\ IF r.ok THEN PaletteDrawn(r.out) ELSE Thrown]_vars
\* C31: when the Tight decoder has read the compact length the server made
\* of n, it has the length n and has taken the bytes of the encoding, one
\* to three, off the queue and no other; the data it then reads is the n
\* bytes that follow.
C31_CompactLength ==
    LET n == trace[1].a
        header == 4 + 12 + 1
    IN  /\ pc = "tightData"
               => /\ loc.length = n
                  /\ loc.lenBytes = Len(compactLen(n))
                  /\ rQi = header + Len(compactLen(n))
        /\ pc = "tightLen" => rQi = header + loc.lenBytes
        /\ \A k \in 1..Len(trace) :
               Is(trace[k], "draw", "imageRect")
                   => /\ trace[k].b[2] = [i \in 1..n |-> 216 + i]
                      /\ rQi = header + Len(compactLen(n)) + n

\* a length of three bytes has been read
C31_Witness ==
    /\ Is(trace[1], "server", "compactLen")
    /\ pc = "tightData"
    /\ loc.length = 2 ^ 21 - 1
    /\ loc.lenBytes = 3
\* the QEMUExtendedKeyEvent messages a step sends
KeycodesSent ==
    SelectSeq(NewEntries, LAMBDA e : Is(e, "send", "QEMUExtendedKeyEvent"))

\* a sendKey step for a key of the scancode c
SendsKey(c) ==
    /\ ~Runnable
    /\ input.events < MaxInputs
    /\ \E keysym \in Keysyms, down \in Downs :
           Commit(sendKey(Counted(World), keysym, c, down))

\* C32: whenever sendKey puts a QEMUExtendedKeyEvent on the wire for a key
\* of the scancode c, the keycode of the message is (c & 0xff) | 0x80 when
\* the upper byte of c is 0xe0 and its lower byte is below 0x7f, and c
\* otherwise.
C32_ExtendedKeycodeBelow7f ==
    [][\A c \in Scancodes :
           SendsKey(c)
               => \A k \in 1..Len(KeycodesSent) :
                      KeycodesSent[k].b =
                          IF c \div 256 = 224 /\ c % 256 < 127
                          THEN or128(c % 256) ELSE c]_vars

\* a ControlRight (0xe01d) has been sent as 0x9d and a key of the scancode
\* 0xe07f as 0xe07f
C32_Witness ==
    /\ \E k \in 1..Len(trace) :
           Is(trace[k], "send", "QEMUExtendedKeyEvent") /\ trace[k].b = 157
    /\ \E k \in 1..Len(trace) :
           Is(trace[k], "send", "QEMUExtendedKeyEvent") /\ trace[k].b = 57471

\* C32 as stated: the keycode of the message is (c & 0xff) | 0x80 for every
\* scancode c of the upper byte 0xe0, and c otherwise.
C32_ExtendedKeycode ==
    [][\A c \in Scancodes, keysym \in Keysyms, down \in Downs :
           (/\ ~Runnable
            /\ input.events < MaxInputs
            /\ Commit(sendKey(Counted(World), keysym, c, down)))
               => \A k \in 1..Len(KeycodesSent) :
                      KeycodesSent[k].b =
                          IF c \div 256 = 224 THEN or128(c % 256) ELSE c]_vars
\* the messages of the keyboard and the mouse a step sends
InputSent ==
    SelectSeq(NewEntries,
              LAMBDA e : \/ Is(e, "send", "KeyEvent")
                         \/ Is(e, "send", "QEMUExtendedKeyEvent")
                         \/ Is(e, "send", "PointerEvent"))

\* C38: no step taken while viewOnly is set or the state is not connected
\* puts a KeyEvent, a QEMUExtendedKeyEvent or a PointerEvent on the wire,
\* the step of the delayed mouse move included.
C38_NoInputWhenViewOnly ==
    [][(viewOnly \/ rfbConnectionState # "connected")
           => InputSent = << >>]_vars

\* the mouse moved, moved again too soon, viewOnly was set, and the delayed
\* move has run: the one PointerEvent on the wire is that of the first move
C38_Witness ==
    /\ viewOnly
    /\ rfbConnectionState = "connected"
    /\ input.mouseMoveTimer = "null"
    /\ input.mousePos = << 2, 3 >>
    /\ \A k \in Positions(trace, "send", "PointerEvent") :
           trace[k].a = << 1, 3 >>
    /\ Cardinality(Positions(trace, "send", "PointerEvent")) = 1
\* a counter plus n as a little-endian integer of 16 bytes, the carry out
\* of the last byte dropped: the bytes from the byte i on
RECURSIVE AddLE(_, _, _)
AddLE(counter, n, i) ==
    IF i > 16 THEN << >>
    ELSE << (counter[i] + n) % 256 >>
             \o AddLE(counter, (counter[i] + n) \div 256, i + 1)

\* C33: the counter of each RA2Cipher is 16 bytes and is the counter it
\* began with plus the number of its makeMessage and receiveMessage calls,
\* as a little-endian integer modulo 2^128; setKey and the calls on the
\* other cipher do not change it.
C33_CounterCounts ==
    \A d \in Directions :
        /\ Len(ciphers[d].counter) = 16
        /\ ciphers[d].counter = AddLE(ciphers[d].start, ciphers[d].ops, 1)

\* the client's cipher has carried into its third byte, the server's cipher
\* has gone around to one, each after its own number of messages
C33_Witness ==
    /\ ciphers["client"].start = [i \in 1..16 |-> IF i <= 2 THEN 255 ELSE 0]
    /\ ciphers["client"].ops = 3
    /\ ciphers["client"].counter =
           [i \in 1..16 |-> IF i = 1 THEN 2 ELSE IF i = 3 THEN 1 ELSE 0]
    /\ ciphers["server"].start = [i \in 1..16 |-> 255]
    /\ ciphers["server"].ops = 2
    /\ ciphers["server"].counter = [i \in 1..16 |-> IF i = 1 THEN 1 ELSE 0]
\* C34: serververification is dispatched at most once, and while the
\* application has not called approveServer() the handshake stays where it
\* asked and nothing has been sent since the event.
C34_NothingSentBeforeApproval ==
    /\ Cardinality(Positions(trace, "event", "serververification")) <= 1
    /\ approveServerResolve
           => /\ pc = "ApproveServer"
              /\ rfbInitState = "Authentication"
              /\ \E p \in Positions(trace, "event", "serververification") :
                     \A k \in (p + 1)..Len(trace) : trace[k].io # "send"

\* the server has sent more while the application has not answered
C34_Witness ==
    /\ approveServerResolve
    /\ rfbConnectionState = "connecting"
    /\ rQ > 0
ConnectEvents == Positions(trace, "event", "connect")

\* C35: the connect event is dispatched at most once and the disconnect
\* event at most once, exactly once when the state is 'disconnected', and no
\* connect event follows a disconnect event.
C35_ConnectAndDisconnectOnce ==
    /\ Cardinality(ConnectEvents) <= 1
    /\ Cardinality(DisconnectEvents) <= 1
    /\ rfbConnectionState = "disconnected"
           => Cardinality(DisconnectEvents) = 1
    /\ \A i \in DisconnectEvents : \A j \in ConnectEvents : j < i

\* connected, then disconnected by a failure of the driver, and after that
\* disconnect() was called and the transport closed
C35_Witness ==
    /\ Cardinality(ConnectEvents) = 1
    /\ Cardinality(DisconnectEvents) = 1
    /\ "disconnected" \in disconnectCalled
    /\ readyState = "closed"
    /\ pc = "caught"
\* C36: a disconnect timer that is pending implies the state 'disconnecting'.
C36_TimerOnlyWhileDisconnecting ==
    (disconnTimer # 0 /\ timers[disconnTimer] = "pending")
        => rfbConnectionState = "disconnecting"
\* the disconnect events a step dispatches
DisconnectsDispatched ==
    SelectSeq(NewEntries, LAMBDA e : Is(e, "event", "disconnect"))

\* C37: the step in which the transport closes while the state is
\* 'connected' ends in 'disconnected' and dispatches one disconnect event,
\* with clean = TRUE; no later step dispatches another, the catch clause of
\* the driver whose read the close has failed included.
C37_ServerCloseIsClean ==
    [][/\ (TransportClose /\ rfbConnectionState = "connected")
           => /\ rfbConnectionState' = "disconnected"
              /\ Len(DisconnectsDispatched) = 1
              /\ DisconnectsDispatched[1].a = TRUE
       /\ rfbConnectionState = "disconnected"
           => DisconnectsDispatched = << >>]_vars

\* the server closed the transport of a connected client, the read of the
\* driver failed, and the driver has been through its catch clause
C37_Witness ==
    /\ disconnectCalled = {}
    /\ ~Occurs("fail", "ProtocolError")
    /\ Occurs("state", "connected")
    /\ pc = "caught"
    /\ Occurs("fail", "ConnectionClosed")
    /\ readyState = "closed"
    /\ rfbConnectionState = "disconnected"
    /\ \A i \in DisconnectEvents : trace[i].a = TRUE
\* C39: a step that reads a Hextile subrectangle changes only pixels of the
\* tile that lie inside the subrectangle: a pixel at the column i and the
\* row j of the tile is as it was unless sx <= i < sx + sw and
\* sy <= j < sy + sh.
C39_SubrectStaysInside ==
    [][(pc = "hextileSub" /\ rQbuf' # rQbuf /\ wire' = wire /\ ~Thrown)
           => LET xy == rQbuf[loc.length - 1]
                  wh == rQbuf[loc.length]
                  sx == xy \div 16
                  sy == xy % 16
                  sw == (wh \div 16) + 1
                  sh == (wh % 16) + 1
                  tileW == tw(World)
              IN  \A p \in 1..Len(loc.tile) :
                      LET i == (p - 1) % tileW
                          j == (p - 1) \div tileW
                          after == IF Len(TileDraws) = 1
                                   THEN SubSeq(TileDraws[1].b,
                                               4 * p - 3, 4 * p)
                                   ELSE loc'.tile[p]
                      IN  after # loc.tile[p]
                              => /\ sx <= i /\ i < sx + sw
                                 /\ sy <= j /\ j < sy + sh]_vars
\* the FramebufferUpdateRequest of _negotiateServerInit, sent before the
\* state 'connected' and so before the first entry of the trace of a
\* connected client
InitialRequests == 1

\* the FramebufferUpdates processed to their end
UpdatesDone(t) == Positions(t, "draw", "flip")

\* C40: while the state is 'connected' and continuous updates are not
\* enabled, more FramebufferUpdateRequests have been sent than
\* FramebufferUpdates have been processed to their end.
C40_RequestOutstanding ==
    (rfbConnectionState = "connected" /\ ~enabledContinuousUpdates)
        => InitialRequests + Cardinality(FbUpdateRequests(trace))
               > Cardinality(UpdatesDone(trace))
====
